---- MODULE Spec2Model ----
(***************************************************************************)
(* Model of the monitoring-and-notification pipeline of netover/teste:     *)
(*   - JobMonitoringService (src/src/services/monitoring/job_monitor.py):  *)
(*     the polling loop, the diff against job_cache, the alert rule and    *)
(*     the publishes on job_updates / alert_notifications;                 *)
(*   - WebSocketManager (src/src/services/monitoring/websocket.py) and the *)
(*     endpoint of src/src/api/websockets.py: the connection registry and  *)
(*     the broadcast driven by the subscriber loop.                        *)
(* A job record is reduced to the two fields the code reads when it diffs: *)
(* jobStreamName and status; the other fields are passed through          *)
(* untouched by the code and are left out.                                 *)
(***************************************************************************)
EXTENDS Naturals, Sequences, FiniteSets, TLC

\* ------------------------------------------------------------------------
\* Bounds of the model
\* ------------------------------------------------------------------------
\* longest list one query of the source returns
MaxRecords == 2
\* number of websocket objects (one endpoint invocation each)
NumHandles == 3
\* cap of the per-job counter of alerts published in one critical episode
MaxAlertCount == 2
\* number of start_monitoring calls (coroutines) of the several-loops model
MaxLoops == 2
\* longest list one query returns in the several-loops model
MaxLoopRecords == 1
\* longest list one query returns in the model with fair scheduling
MaxFairRecords == 1
\* number of messages the subscriber loop decodes in the relay model
MaxMessages == 2
\* number of websocket objects of the relay model
MaxRelayHandles == 2
\* number of payloads the subscriber loop fails to decode in the relay model
MaxUndecoded == 1
\* number of text messages the endpoints receive in the relay model
MaxInbound == 1

\* ------------------------------------------------------------------------
\* Values
\* ------------------------------------------------------------------------
JobNames == {"JOB_A", "JOB_B"}

\* the statuses the source reports in this model: one healthy (in two
\* spellings that differ in letter case only), two critical
Statuses == {"EXEC", "exec", "ABEND", "ERROR"}

\* a record without a 'status' key: dict.get('status') is None
NoStatus == "<none>"

\* a record without (or with an empty) 'jobStreamName'
NoName == ""

\* the records query_job_streams can return; of a record without a name,
\* which the comprehension filters out, no field is ever read
Records ==
  [jobStreamName : JobNames, status : Statuses \cup {NoStatus}]
    \cup {[jobStreamName |-> NoName, status |-> "EXEC"]}

\* critical_statuses of _check_alert_rules
critical_statuses == {"ABEND", "ERROR", "FAIL"}

\* self.job_cache = {} of __init__
EmptyCache == << >>

\* no event under construction
NoEvent == [job_name |-> NoName, old_status |-> "", new_status |-> ""]

RECURSIVE SeqsUpTo(_, _)
\* the sequences over S of length at most n
SeqsUpTo(S, n) ==
  IF n = 0 THEN {<< >>}
  ELSE LET shorter == SeqsUpTo(S, n - 1)
       IN  shorter \cup {Append(s, x) : s \in {t \in shorter : Len(t) = n - 1}, x \in S}

\* the results a successful query can give
QueryResults == SeqsUpTo(Records, MaxRecords)

\* ------------------------------------------------------------------------
\* State
\* ------------------------------------------------------------------------
VARIABLES
  \* JobMonitoringService
  monitoring_active,  \* self.monitoring_active
  redis_client,       \* self.redis_client is not None
  job_cache,          \* self.job_cache: function job name -> record
  pc,                 \* position of the start_monitoring coroutine
  new_cache,          \* new_cache of the cycle, a dict in insertion order: sequence of records
  idx,                \* position of the for loop over new_cache.items()
  event,              \* the JobStatusEvent being handled
  \* history of the current poll cycle (reset when a cycle begins)
  pre_cache,          \* job_cache when the cycle began
  cycle,              \* "none" | "running" | "query_failed" | "completed" | "aborted"
  events,             \* events passed to _handle_status_change in this cycle
  handled,            \* how many of them _handle_status_change has returned from
  stores,             \* events passed to _store_status_history in this cycle
  published,          \* redis publish calls of this cycle: [channel, type, job_name, ok]
  event_alerts,       \* publish calls on alert_notifications made for `event`
  current_jobs,       \* what the query of this cycle returned
  \* history across cycles
  alert_count,        \* per job: alerts published since it was last seen non-critical
  last_update,        \* per job: new_status of the last update the bus accepted for it, "none"
                      \* after a publish that raised or a snapshot without the job
  unpublished,        \* per job: the status a cycle without a bus client reported and swapped
                      \* in, "none" once a snapshot shows another status or lacks the job
                      \* (noted in the model that tracks it only)
  dropped,            \* per job: the status of the cache entry a swap removed, "none" once a
                      \* swap holds the job again (noted in the model that tracks it only)
  aborted_jobs,       \* the query result of the cycle that was aborted last, << >> after a
                      \* swap or a query that returned another result (noted in the model
                      \* that tracks it only)
  resumed,            \* the query of this cycle returned the result of aborted_jobs
  \* several calls of start_monitoring on the one service object
  lpc,                \* per call: position of its start_monitoring coroutine
  l_new,              \* per call: new_cache of its _poll_job_status
  l_idx,              \* per call: position of its for loop over new_cache.items()
  \* WebSocketManager and the endpoint
  active_connections, \* self.active_connections: function viewer id -> set of handles
  conn,               \* per websocket: position of its websocket_monitoring_endpoint
  bpc,                \* position of the subscribe_to_updates coroutine
  bc_keys,            \* broadcast: viewer ids of list(keys()) not yet visited
  it_user,            \* send_personal_message: user_id
  it_size,            \* the set iterator: size of the set when the for loop began
  it_visited,         \* the set iterator: handles it has yielded
  it_added,           \* the set iterator: handles added to its set since the loop began
  it_detached,        \* the set iterator: its set was emptied and deleted from the dict
  it_cur,             \* the handle whose send_json is awaited (0: none)
  disconnected_sockets, \* disconnected_sockets of send_personal_message
  \* history of the current broadcast (reset when a broadcast begins)
  bc_status,          \* "none" | "running" | "done" | "error"
  bc_start,           \* handles registered when broadcast was called
  bc_sends,           \* per handle: send_json calls of this broadcast
  bc_failed,          \* handles whose send_json raised in this broadcast
  bc_changed,         \* an endpoint connected or disconnected since the broadcast began
  bc_kept,            \* handles the broadcast before this one left registered after a failed
                      \* send, and that no endpoint disconnected before this one began
  kept,               \* the same for the broadcast that ended last, for the one to come
  \* history of the connect calls
  connected_twice,    \* registered handles on which connect was called again
  \* the messages (the messages of one behaviour are all alike, or numbered)
  data,               \* subscribe_to_updates: number of the message json.loads returned last
  last_sent,          \* per handle: number of the message of the last send_json on it
  undecoded,          \* payloads of which json.loads raised
  inbound             \* text messages receive_text returned to an endpoint

loops_vars == <<lpc, l_new, l_idx>>

poller_vars == <<monitoring_active, redis_client, job_cache, pc, new_cache, idx, event,
                 pre_cache, cycle, events, handled, stores, published, event_alerts,
                 current_jobs, alert_count, last_update, unpublished, dropped, aborted_jobs,
                 resumed, loops_vars>>

ws_vars == <<active_connections, conn, bpc, bc_keys, it_user, it_size, it_visited, it_added,
             it_detached, it_cur, disconnected_sockets, bc_status, bc_start, bc_sends,
             bc_failed, bc_changed, bc_kept, kept, connected_twice, data, last_sent,
             undecoded, inbound>>

relay_vars == <<data, last_sent, undecoded, inbound>>

vars == <<poller_vars, ws_vars>>

\* ------------------------------------------------------------------------
\* Pure helpers of the poller
\* ------------------------------------------------------------------------
\* index of the entry of the ordered dict d with key name, 0 if there is none
KeyIndex(d, name) ==
  IF \E i \in DOMAIN d : d[i].jobStreamName = name
  THEN CHOOSE i \in DOMAIN d : d[i].jobStreamName = name
  ELSE 0

\* DictPut into a list of records instead of a dict: a second record of a
\* name is a second entry
DictPut_Appends(d, job) == Append(d, job)

\* d[job['jobStreamName']] = job, for a record the comprehension's filter lets through
DictPut(d, job) ==
  IF KeyIndex(d, job.jobStreamName) # 0
  THEN [d EXCEPT ![KeyIndex(d, job.jobStreamName)] = job]
  ELSE Append(d, job)

RECURSIVE BuildCache_KeepsNameless(_)
\* BuildCache without the filter of the comprehension
BuildCache_KeepsNameless(jobs) ==
  IF jobs = << >> THEN << >>
  ELSE DictPut(BuildCache_KeepsNameless(SubSeq(jobs, 1, Len(jobs) - 1)), jobs[Len(jobs)])

RECURSIVE BuildCache(_)
\* {job.get('jobStreamName'): job for job in current_jobs if job.get('jobStreamName')}
BuildCache(jobs) ==
  IF jobs = << >> THEN << >>
  ELSE LET n    == Len(jobs)
           rest == BuildCache(SubSeq(jobs, 1, n - 1))
           job  == jobs[n]
       IN  IF job.jobStreamName # NoName THEN DictPut(rest, job) ELSE rest

\* the dict as a function of its keys (what self.job_cache holds after the swap)
AsMap(d) ==
  [name \in {d[i].jobStreamName : i \in DOMAIN d} |-> d[KeyIndex(d, name)]]

\* StatusDiffers with the status compared against the record instead of its
\* status: never equal
StatusDiffers_AgainstRecord(old_job, job_data) == TRUE

\* old_job.get('status') != job_data.get('status')
StatusDiffers(old_job, job_data) == old_job.status # job_data.status

\* the branch of the for loop that calls _process_job_update
NeedsUpdate(cache, job_data) ==
  IF job_data.jobStreamName \in DOMAIN cache
  THEN StatusDiffers(cache[job_data.jobStreamName], job_data)
  ELSE TRUE

\* old_job_data.get('status', 'NEW') if old_job_data else 'NEW'
OldStatus(cache, name) ==
  IF name \in DOMAIN cache
  THEN (IF cache[name].status = NoStatus THEN "NEW" ELSE cache[name].status)
  ELSE "NEW"

\* job_data.get('status', 'UNKNOWN')
NewStatus(job_data) ==
  IF job_data.status = NoStatus THEN "UNKNOWN" ELSE job_data.status

\* JobStatusEvent(...) of _process_job_update
MakeEvent(cache, job_data) ==
  [job_name   |-> job_data.jobStreamName,
   old_status |-> OldStatus(cache, job_data.jobStreamName),
   new_status |-> NewStatus(job_data)]

\* AlertFires without the test of old_status: fires on every event into a
\* critical status
AlertFires_AnyOld(ev) == ev.new_status \in critical_statuses

\* the condition of _check_alert_rules
AlertFires(ev) ==
  ev.new_status \in critical_statuses /\ ev.old_status \notin critical_statuses

\* one redis publish call
Publish(channel, type, ev, ok) ==
  [channel |-> channel, type |-> type, job_name |-> ev.job_name, ok |-> ok]

\* the statuses of job `name` seen by a successful query: does this one end an
\* episode of consecutive critical observations?
EndsCriticalEpisode(d, name) ==
  \/ KeyIndex(d, name) = 0
  \/ NewStatus(d[KeyIndex(d, name)]) \notin critical_statuses

Bump(n) == IF n < MaxAlertCount THEN n + 1 ELSE n

\* ------------------------------------------------------------------------
\* Initial state of the poller: JobMonitoringService.__init__
\* ------------------------------------------------------------------------
PollerInit ==
  /\ monitoring_active = FALSE
  /\ redis_client = FALSE
  /\ job_cache = EmptyCache
  /\ pc = "idle"
  /\ new_cache = << >>
  /\ idx = 0
  /\ event = NoEvent
  /\ pre_cache = EmptyCache
  /\ cycle = "none"
  /\ events = << >>
  /\ handled = 0
  /\ stores = << >>
  /\ published = << >>
  /\ event_alerts = 0
  /\ current_jobs = << >>
  /\ alert_count = [name \in JobNames |-> 0]
  /\ last_update = [name \in JobNames |-> "none"]
  /\ unpublished = [name \in JobNames |-> "none"]
  /\ dropped = [name \in JobNames |-> "none"]
  /\ aborted_jobs = << >>
  /\ resumed = FALSE
  /\ lpc = [l \in 1..MaxLoops |-> "idle"]
  /\ l_new = [l \in 1..MaxLoops |-> << >>]
  /\ l_idx = [l \in 1..MaxLoops |-> 0]

tracked_vars == <<dropped, aborted_jobs, resumed>>

hist_vars == <<pre_cache, cycle, events, handled, stores, published, event_alerts, current_jobs>>

\* ------------------------------------------------------------------------
\* JobMonitoringService: actions
\* ------------------------------------------------------------------------
\* initialize(): the redis client is set when from_url returns. It runs in
\* another task, so it takes effect only while the polling loop is suspended
\* (without a client a cycle has no suspension point after its query).
Initialize ==
  /\ ~redis_client
  /\ pc \in {"idle", "query", "sleep", "done"}
  /\ redis_client' = TRUE
  /\ UNCHANGED <<monitoring_active, job_cache, pc, new_cache, idx, event, hist_vars, alert_count, last_update, unpublished, tracked_vars>>
  /\ UNCHANGED <<ws_vars, loops_vars>>

\* start_monitoring() up to the while: one polling loop at a time
StartMonitoring ==
  /\ pc \in {"idle", "done"}
  /\ ~monitoring_active
  /\ monitoring_active' = TRUE
  /\ pc' = "loop"
  /\ UNCHANGED <<redis_client, job_cache, new_cache, idx, event, hist_vars, alert_count, last_update, unpublished, tracked_vars>>
  /\ UNCHANGED <<ws_vars, loops_vars>>

\* StopMonitoring that cancels the task of the loop where it is suspended
StopMonitoring_Cancels ==
  /\ monitoring_active
  /\ pc \in {"query", "check_alert", "publish_update", "sleep"}
  /\ monitoring_active' = FALSE
  /\ pc' = "done"
  /\ UNCHANGED <<redis_client, job_cache, new_cache, idx, event, hist_vars, alert_count, last_update, unpublished, tracked_vars>>
  /\ UNCHANGED <<ws_vars, loops_vars>>

\* stop_monitoring(), called while the loop is suspended
StopMonitoring ==
  /\ monitoring_active
  /\ pc \in {"query", "check_alert", "publish_update", "sleep"}
  /\ monitoring_active' = FALSE
  /\ UNCHANGED <<redis_client, job_cache, pc, new_cache, idx, event, hist_vars, alert_count, last_update, unpublished, tracked_vars>>
  /\ UNCHANGED <<ws_vars, loops_vars>>

\* while self.monitoring_active: true, _poll_job_status() is entered
BeginCycle ==
  /\ pc = "loop"
  /\ monitoring_active
  /\ pc' = "query"
  /\ pre_cache' = job_cache
  /\ cycle' = "running"
  /\ events' = << >>
  /\ handled' = 0
  /\ stores' = << >>
  /\ published' = << >>
  /\ event_alerts' = 0
  /\ current_jobs' = << >>
  /\ new_cache' = << >>
  /\ idx' = 0
  /\ event' = NoEvent
  /\ resumed' = FALSE
  /\ UNCHANGED <<monitoring_active, redis_client, job_cache, alert_count, last_update, unpublished,
                 dropped, aborted_jobs>>
  /\ UNCHANGED <<ws_vars, loops_vars>>

\* while self.monitoring_active: false, start_monitoring returns
ExitLoop ==
  /\ pc = "loop"
  /\ ~monitoring_active
  /\ pc' = "done"
  /\ UNCHANGED <<monitoring_active, redis_client, job_cache, new_cache, idx, event, hist_vars,
                 alert_count, last_update, unpublished, tracked_vars>>
  /\ UNCHANGED <<ws_vars, loops_vars>>

\* QueryFail that takes the failed query for an empty result and drops the cache
QueryFail_DropsCache ==
  /\ pc = "query"
  /\ pc' = "sleep"
  /\ cycle' = "query_failed"
  /\ job_cache' = EmptyCache
  /\ UNCHANGED <<current_jobs, monitoring_active, redis_client, new_cache, idx, event, pre_cache,
                 events, handled, stores, published, event_alerts, alert_count, last_update, unpublished, tracked_vars>>
  /\ UNCHANGED <<ws_vars, loops_vars>>

\* the query raises: logged, return
QueryFail ==
  /\ pc = "query"
  /\ pc' = "sleep"
  /\ cycle' = "query_failed"
  /\ UNCHANGED <<current_jobs, monitoring_active, redis_client, job_cache, new_cache, idx, event, pre_cache,
                 events, handled, stores, published, event_alerts, alert_count, last_update, unpublished, tracked_vars>>
  /\ UNCHANGED <<ws_vars, loops_vars>>

\* QueryReturnFrom that reports removals: every cached job that is absent from
\* the result is put in new_cache as a record without a status
QueryReturnFrom_ReportsRemoved(results) ==
  /\ pc = "query"
  /\ \E jobs \in results :
       /\ current_jobs' = jobs
       /\ LET gone == DOMAIN job_cache \ DOMAIN AsMap(BuildCache(jobs))
               removed == CHOOSE q \in [1..Cardinality(gone) -> gone] :
                            \A name \in gone : \E i \in DOMAIN q : q[i] = name
           IN  new_cache' = BuildCache(jobs) \o
                              [i \in 1..Cardinality(gone) |->
                                 [jobStreamName |-> removed[i], status |-> NoStatus]]
       /\ alert_count' = [name \in JobNames |->
                            IF EndsCriticalEpisode(new_cache', name) THEN 0 ELSE alert_count[name]]
       /\ last_update' = [name \in JobNames |->
                            IF KeyIndex(new_cache', name) = 0 THEN "none" ELSE last_update[name]]
       /\ unpublished' = [name \in JobNames |->
                            IF /\ KeyIndex(new_cache', name) # 0
                               /\ new_cache'[KeyIndex(new_cache', name)].status = unpublished[name]
                            THEN unpublished[name] ELSE "none"]
       /\ resumed' = (aborted_jobs # << >> /\ jobs = aborted_jobs)
       /\ aborted_jobs' = IF jobs = aborted_jobs THEN aborted_jobs ELSE << >>
  /\ idx' = 1
  /\ pc' = "iterate"
  /\ UNCHANGED <<monitoring_active, redis_client, job_cache, event, pre_cache, cycle, events,
                 handled, stores, published, event_alerts, dropped>>
  /\ UNCHANGED <<ws_vars, loops_vars>>

\* the query returns current_jobs, one of `results`; new_cache is built
QueryReturnFrom(results) ==
  /\ pc = "query"
  /\ \E jobs \in results :
       /\ current_jobs' = jobs
       /\ new_cache' = BuildCache(jobs)
       /\ alert_count' = [name \in JobNames |->
                            IF EndsCriticalEpisode(new_cache', name) THEN 0 ELSE alert_count[name]]
       /\ last_update' = [name \in JobNames |->
                            IF KeyIndex(new_cache', name) = 0 THEN "none" ELSE last_update[name]]
       /\ unpublished' = [name \in JobNames |->
                            IF /\ KeyIndex(new_cache', name) # 0
                               /\ new_cache'[KeyIndex(new_cache', name)].status = unpublished[name]
                            THEN unpublished[name] ELSE "none"]
       /\ resumed' = (aborted_jobs # << >> /\ jobs = aborted_jobs)
       /\ aborted_jobs' = IF jobs = aborted_jobs THEN aborted_jobs ELSE << >>
  /\ idx' = 1
  /\ pc' = "iterate"
  /\ UNCHANGED <<monitoring_active, redis_client, job_cache, event, pre_cache, cycle, events,
                 handled, stores, published, event_alerts, dropped>>
  /\ UNCHANGED <<ws_vars, loops_vars>>

\* the query returns
QueryReturn == QueryReturnFrom(QueryResults)

\* the query returns, with the shorter results of the model with fair scheduling
QueryReturnShort == QueryReturnFrom(SeqsUpTo(Records, MaxFairRecords))

\* one turn of the for loop that does not call _process_job_update
SkipJob ==
  /\ pc = "iterate"
  /\ idx <= Len(new_cache)
  /\ ~NeedsUpdate(job_cache, new_cache[idx])
  /\ idx' = idx + 1
  /\ UNCHANGED <<monitoring_active, redis_client, job_cache, pc, new_cache, event, hist_vars,
                 alert_count, last_update, unpublished, tracked_vars>>
  /\ UNCHANGED <<ws_vars, loops_vars>>

\* ProcessJobUpdate that goes to the alert check without the history write
ProcessJobUpdate_AlertFirst ==
  /\ pc = "iterate"
  /\ idx <= Len(new_cache)
  /\ NeedsUpdate(job_cache, new_cache[idx])
  /\ event' = MakeEvent(job_cache, new_cache[idx])
  /\ events' = Append(events, event')
  /\ event_alerts' = 0
  /\ pc' = "check_alert"
  /\ UNCHANGED <<current_jobs, monitoring_active, redis_client, job_cache, new_cache, idx, pre_cache, cycle,
                 handled, stores, published, alert_count, last_update, unpublished, tracked_vars>>
  /\ UNCHANGED <<ws_vars, loops_vars>>

\* one turn of the for loop that calls _process_job_update, up to the call of
\* _handle_status_change
ProcessJobUpdate ==
  /\ pc = "iterate"
  /\ idx <= Len(new_cache)
  /\ NeedsUpdate(job_cache, new_cache[idx])
  /\ event' = MakeEvent(job_cache, new_cache[idx])
  /\ events' = Append(events, event')
  /\ event_alerts' = 0
  /\ pc' = "store"
  /\ UNCHANGED <<current_jobs, monitoring_active, redis_client, job_cache, new_cache, idx, pre_cache, cycle,
                 handled, stores, published, alert_count, last_update, unpublished, tracked_vars>>
  /\ UNCHANGED <<ws_vars, loops_vars>>

\* _store_status_history: the stub logs and returns
StoreStatusHistory ==
  /\ pc = "store"
  /\ stores' = Append(stores, event)
  /\ pc' = "check_alert"
  /\ UNCHANGED <<current_jobs, monitoring_active, redis_client, job_cache, new_cache, idx, event, pre_cache,
                 cycle, events, handled, published, event_alerts, alert_count, last_update, unpublished, tracked_vars>>
  /\ UNCHANGED <<ws_vars, loops_vars>>

\* _check_alert_rules: the condition is false
AlertNotFired ==
  /\ pc = "check_alert"
  /\ ~AlertFires(event)
  /\ pc' = "publish_update"
  /\ UNCHANGED <<monitoring_active, redis_client, job_cache, new_cache, idx, event, hist_vars,
                 alert_count, last_update, unpublished, tracked_vars>>
  /\ UNCHANGED <<ws_vars, loops_vars>>

\* _check_alert_rules -> _send_alert without a redis client: nothing is published
SendAlertNoClient ==
  /\ pc = "check_alert"
  /\ AlertFires(event)
  /\ ~redis_client
  /\ pc' = "publish_update"
  /\ UNCHANGED <<monitoring_active, redis_client, job_cache, new_cache, idx, event, hist_vars,
                 alert_count, last_update, unpublished, tracked_vars>>
  /\ UNCHANGED <<ws_vars, loops_vars>>

\* SendAlertOk that publishes the alert on the channel of the updates
SendAlertOk_OnUpdatesChannel ==
  /\ pc = "check_alert"
  /\ AlertFires(event)
  /\ redis_client
  /\ published' = Append(published, Publish("job_updates", "alert_notification", event, TRUE))
  /\ event_alerts' = event_alerts + 1
  /\ alert_count' = [alert_count EXCEPT ![event.job_name] = Bump(@)]
  /\ pc' = "publish_update"
  /\ UNCHANGED <<last_update, unpublished, tracked_vars>>
  /\ UNCHANGED <<current_jobs, monitoring_active, redis_client, job_cache, new_cache, idx, event, pre_cache,
                 cycle, events, handled, stores>>
  /\ UNCHANGED <<ws_vars, loops_vars>>

\* _check_alert_rules -> _send_alert: the publish on alert_notifications returns
SendAlertOk ==
  /\ pc = "check_alert"
  /\ AlertFires(event)
  /\ redis_client
  /\ published' = Append(published, Publish("alert_notifications", "alert_notification", event, TRUE))
  /\ event_alerts' = event_alerts + 1
  /\ alert_count' = [alert_count EXCEPT ![event.job_name] = Bump(@)]
  /\ pc' = "publish_update"
  /\ UNCHANGED <<last_update, unpublished, tracked_vars>>
  /\ UNCHANGED <<current_jobs, monitoring_active, redis_client, job_cache, new_cache, idx, event, pre_cache,
                 cycle, events, handled, stores>>
  /\ UNCHANGED <<ws_vars, loops_vars>>

\* _check_alert_rules -> _send_alert: the publish raises; nothing catches it
\* before the except of start_monitoring; with track, the model notes the
\* query result of the aborted cycle
SendAlertFailNoting(track) ==
  /\ pc = "check_alert"
  /\ AlertFires(event)
  /\ redis_client
  /\ published' = Append(published, Publish("alert_notifications", "alert_notification", event, FALSE))
  /\ event_alerts' = event_alerts + 1
  /\ cycle' = "aborted"
  /\ pc' = "sleep"
  /\ last_update' = [name \in JobNames |-> "none"]
  /\ aborted_jobs' = IF track THEN current_jobs ELSE aborted_jobs
  /\ UNCHANGED <<unpublished, dropped, resumed>>
  /\ UNCHANGED <<current_jobs, monitoring_active, redis_client, job_cache, new_cache, idx, event, pre_cache,
                 events, handled, stores, alert_count>>
  /\ UNCHANGED <<ws_vars, loops_vars>>

\* the publish of the alert raises
SendAlertFail == SendAlertFailNoting(FALSE)

\* the publish of the alert raises, in the model that tracks the aborted cycles
SendAlertFailTracked == SendAlertFailNoting(TRUE)

\* _publish_realtime_update without a redis client: nothing is published
UpdateNoClient ==
  /\ pc = "publish_update"
  /\ ~redis_client
  /\ handled' = handled + 1
  /\ idx' = idx + 1
  /\ pc' = "iterate"
  /\ UNCHANGED <<current_jobs, monitoring_active, redis_client, job_cache, new_cache, event, pre_cache, cycle,
                 events, stores, published, event_alerts, alert_count, last_update, unpublished, tracked_vars>>
  /\ UNCHANGED <<ws_vars, loops_vars>>

\* UpdateOk that publishes the update twice
UpdateOk_Twice ==
  /\ pc = "publish_update"
  /\ redis_client
  /\ published' = Append(Append(published, Publish("job_updates", "job_status_update", event, TRUE)),
                         Publish("job_updates", "job_status_update", event, TRUE))
  /\ handled' = handled + 1
  /\ idx' = idx + 1
  /\ pc' = "iterate"
  /\ last_update' = [last_update EXCEPT ![event.job_name] = event.new_status]
  /\ UNCHANGED <<unpublished, tracked_vars>>
  /\ UNCHANGED <<current_jobs, monitoring_active, redis_client, job_cache, new_cache, event, pre_cache, cycle,
                 events, stores, event_alerts, alert_count>>
  /\ UNCHANGED <<ws_vars, loops_vars>>

\* _publish_realtime_update: the publish on job_updates returns
UpdateOk ==
  /\ pc = "publish_update"
  /\ redis_client
  /\ published' = Append(published, Publish("job_updates", "job_status_update", event, TRUE))
  /\ handled' = handled + 1
  /\ idx' = idx + 1
  /\ pc' = "iterate"
  /\ last_update' = [last_update EXCEPT ![event.job_name] = event.new_status]
  /\ UNCHANGED <<unpublished, tracked_vars>>
  /\ UNCHANGED <<current_jobs, monitoring_active, redis_client, job_cache, new_cache, event, pre_cache, cycle,
                 events, stores, event_alerts, alert_count>>
  /\ UNCHANGED <<ws_vars, loops_vars>>

\* UpdateFail whose exception leaves start_monitoring
UpdateFail_EndsLoop ==
  /\ pc = "publish_update"
  /\ redis_client
  /\ published' = Append(published, Publish("job_updates", "job_status_update", event, FALSE))
  /\ cycle' = "aborted"
  /\ pc' = "done"
  /\ last_update' = [name \in JobNames |-> "none"]
  /\ UNCHANGED <<unpublished, tracked_vars>>
  /\ UNCHANGED <<current_jobs, monitoring_active, redis_client, job_cache, new_cache, idx, event, pre_cache,
                 events, handled, stores, event_alerts, alert_count>>
  /\ UNCHANGED <<ws_vars, loops_vars>>

\* _publish_realtime_update: the publish raises; nothing catches it before
\* the except of start_monitoring; with track, the model notes the query
\* result of the aborted cycle
UpdateFailNoting(track) ==
  /\ pc = "publish_update"
  /\ redis_client
  /\ published' = Append(published, Publish("job_updates", "job_status_update", event, FALSE))
  /\ cycle' = "aborted"
  /\ pc' = "sleep"
  /\ last_update' = [name \in JobNames |-> "none"]
  /\ aborted_jobs' = IF track THEN current_jobs ELSE aborted_jobs
  /\ UNCHANGED <<unpublished, dropped, resumed>>
  /\ UNCHANGED <<current_jobs, monitoring_active, redis_client, job_cache, new_cache, idx, event, pre_cache,
                 events, handled, stores, event_alerts, alert_count>>
  /\ UNCHANGED <<ws_vars, loops_vars>>

\* the publish of the update raises
UpdateFail == UpdateFailNoting(FALSE)

\* the publish of the update raises, in the model that tracks the aborted cycles
UpdateFailTracked == UpdateFailNoting(TRUE)

\* CacheSwap that updates the cache in place: the entries of jobs that are
\* absent from the new poll stay
CacheSwap_InPlace ==
  /\ pc = "iterate"
  /\ idx > Len(new_cache)
  /\ job_cache' = [name \in DOMAIN job_cache \cup DOMAIN AsMap(new_cache) |->
                     IF name \in DOMAIN AsMap(new_cache) THEN AsMap(new_cache)[name]
                     ELSE job_cache[name]]
  /\ cycle' = "completed"
  /\ pc' = "sleep"
  /\ UNCHANGED <<current_jobs, monitoring_active, redis_client, new_cache, idx, event, pre_cache,
                 events, handled, stores, published, event_alerts, alert_count, last_update, unpublished, tracked_vars>>
  /\ UNCHANGED <<ws_vars, loops_vars>>

\* the statuses of the events of a cycle that ends without a bus client, by
\* job (the status of the snapshot's record, as the cache holds it)
NoteUnpublished ==
  [name \in JobNames |->
     IF ~redis_client /\ \E k \in DOMAIN events : events[k].job_name = name
     THEN new_cache[KeyIndex(new_cache, name)].status
     ELSE unpublished[name]]

\* the statuses of the cache entries that the swap removes, by job
NoteDropped ==
  [name \in JobNames |->
     IF KeyIndex(new_cache, name) # 0 THEN "none"
     ELSE IF name \in DOMAIN job_cache THEN job_cache[name].status
     ELSE dropped[name]]

\* CacheSwapNoting that keeps the old cache when there is no bus client
CacheSwapNoting_OnlyWithClient(track) ==
  /\ pc = "iterate"
  /\ idx > Len(new_cache)
  /\ job_cache' = IF redis_client THEN AsMap(new_cache) ELSE job_cache
  /\ unpublished' = IF track THEN NoteUnpublished ELSE unpublished
  /\ dropped' = IF track THEN NoteDropped ELSE dropped
  /\ aborted_jobs' = << >>
  /\ UNCHANGED resumed
  /\ cycle' = "completed"
  /\ pc' = "sleep"
  /\ UNCHANGED <<current_jobs, monitoring_active, redis_client, new_cache, idx, event, pre_cache, events,
                 handled, stores, published, event_alerts, alert_count, last_update>>
  /\ UNCHANGED <<ws_vars, loops_vars>>

\* self.job_cache = new_cache, after the for loop; with track, the model
\* notes the events the cycle could not publish
CacheSwapNoting(track) ==
  /\ pc = "iterate"
  /\ idx > Len(new_cache)
  /\ job_cache' = AsMap(new_cache)
  /\ unpublished' = IF track THEN NoteUnpublished ELSE unpublished
  /\ dropped' = IF track THEN NoteDropped ELSE dropped
  /\ aborted_jobs' = << >>
  /\ UNCHANGED resumed
  /\ cycle' = "completed"
  /\ pc' = "sleep"
  /\ UNCHANGED <<current_jobs, monitoring_active, redis_client, new_cache, idx, event, pre_cache, events,
                 handled, stores, published, event_alerts, alert_count, last_update>>
  /\ UNCHANGED <<ws_vars, loops_vars>>

\* the cache swap
CacheSwap == CacheSwapNoting(FALSE)

\* the cache swap, in the model that tracks the unpublished events
CacheSwapTracked == CacheSwapNoting(TRUE)

\* await asyncio.sleep(self.poll_interval) returns
Sleep ==
  /\ pc = "sleep"
  /\ pc' = "loop"
  /\ UNCHANGED <<monitoring_active, redis_client, job_cache, new_cache, idx, event, hist_vars,
                 alert_count, last_update, unpublished, tracked_vars>>
  /\ UNCHANGED <<ws_vars, loops_vars>>

Next ==
  \/ Initialize
  \/ StartMonitoring
  \/ StopMonitoring
  \/ BeginCycle
  \/ ExitLoop
  \/ QueryFail
  \/ QueryReturn
  \/ SkipJob
  \/ ProcessJobUpdate
  \/ StoreStatusHistory
  \/ AlertNotFired
  \/ SendAlertNoClient
  \/ SendAlertOk
  \/ SendAlertFail
  \/ UpdateNoClient
  \/ UpdateOk
  \/ UpdateFail
  \/ CacheSwap
  \/ Sleep

\* the steps of the start_monitoring coroutine itself, in the model with fair
\* scheduling
LoopStep ==
  \/ BeginCycle
  \/ ExitLoop
  \/ QueryFail
  \/ QueryReturnShort
  \/ SkipJob
  \/ ProcessJobUpdate
  \/ StoreStatusHistory
  \/ AlertNotFired
  \/ SendAlertNoClient
  \/ SendAlertOk
  \/ SendAlertFail
  \/ UpdateNoClient
  \/ UpdateOk
  \/ UpdateFail
  \/ CacheSwap
  \/ Sleep

\* the poller with the shorter results, tracking the events that a cycle
\* without a bus client could not publish
NextTracked ==
  \/ Initialize
  \/ StartMonitoring
  \/ StopMonitoring
  \/ BeginCycle
  \/ ExitLoop
  \/ QueryFail
  \/ QueryReturnShort
  \/ SkipJob
  \/ ProcessJobUpdate
  \/ StoreStatusHistory
  \/ AlertNotFired
  \/ SendAlertNoClient
  \/ SendAlertOk
  \/ SendAlertFail
  \/ UpdateNoClient
  \/ UpdateOk
  \/ UpdateFail
  \/ CacheSwapTracked
  \/ Sleep

\* the poller, tracking the query result of the cycle that was aborted last
NextResumed ==
  \/ Initialize
  \/ StartMonitoring
  \/ StopMonitoring
  \/ BeginCycle
  \/ ExitLoop
  \/ QueryFail
  \/ QueryReturn
  \/ SkipJob
  \/ ProcessJobUpdate
  \/ StoreStatusHistory
  \/ AlertNotFired
  \/ SendAlertNoClient
  \/ SendAlertOk
  \/ SendAlertFailTracked
  \/ UpdateNoClient
  \/ UpdateOk
  \/ UpdateFailTracked
  \/ CacheSwap
  \/ Sleep

\* the poller, tracking the cache entries that a swap removed
NextReappear ==
  \/ Initialize
  \/ StartMonitoring
  \/ StopMonitoring
  \/ BeginCycle
  \/ ExitLoop
  \/ QueryFail
  \/ QueryReturn
  \/ SkipJob
  \/ ProcessJobUpdate
  \/ StoreStatusHistory
  \/ AlertNotFired
  \/ SendAlertNoClient
  \/ SendAlertOk
  \/ SendAlertFail
  \/ UpdateNoClient
  \/ UpdateOk
  \/ UpdateFail
  \/ CacheSwapTracked
  \/ Sleep

NextFair ==
  \/ Initialize
  \/ StartMonitoring
  \/ StopMonitoring
  \/ LoopStep

\* ------------------------------------------------------------------------
\* Several calls of start_monitoring on the one JobMonitoringService
\* ------------------------------------------------------------------------
\* Each call is a coroutine of its own; they share monitoring_active,
\* redis_client and job_cache. The steps of one poll cycle are the ones of the
\* single-loop actions above, told by the awaits at which a coroutine lets the
\* others run: the query, the two publishes (with a bus client) and the sleep.
Loops == 1..MaxLoops

\* the results a successful query can give in this part of the model
LoopRecords == [jobStreamName : JobNames, status : {"EXEC", "ABEND"}]

LoopQueryResults == SeqsUpTo(LoopRecords, MaxLoopRecords)

\* the call is suspended in an await, has not begun or has returned
LoopSuspended(l) == lpc[l] \in {"idle", "query", "send_alert", "publish_update", "sleep", "done"}

\* the event loop runs one coroutine at a time: l may take a step when no
\* other call is between two awaits
MayRun(l) == \A m \in Loops \ {l} : LoopSuspended(m)

\* the call is inside its while loop
LoopRunning(l) == lpc[l] \notin {"idle", "done"}

\* the call is inside _poll_job_status
InPollCycle(l) == lpc[l] \in {"query", "iterate", "send_alert", "publish_update"}

single_loop_vars == <<pc, new_cache, idx, event, hist_vars, alert_count, last_update, unpublished,
                      dropped, aborted_jobs, resumed>>

\* the poll cycle of l ends (return or exception): its locals are gone
EndCycle(l) ==
  /\ lpc' = [lpc EXCEPT ![l] = "sleep"]
  /\ l_new' = [l_new EXCEPT ![l] = << >>]
  /\ l_idx' = [l_idx EXCEPT ![l] = 0]

\* initialize(), run by another task
LInitialize ==
  /\ ~redis_client
  /\ \A l \in Loops : LoopSuspended(l)
  /\ redis_client' = TRUE
  /\ UNCHANGED <<monitoring_active, job_cache, loops_vars, single_loop_vars, ws_vars>>

\* start_monitoring(): the flag is clear; it is set and the while is reached
LStart(l) ==
  /\ lpc[l] = "idle"
  /\ MayRun(l)
  /\ ~monitoring_active
  /\ monitoring_active' = TRUE
  /\ lpc' = [lpc EXCEPT ![l] = "loop"]
  /\ UNCHANGED <<redis_client, job_cache, l_new, l_idx, single_loop_vars, ws_vars>>

\* start_monitoring(): the flag is set; warning and return
LStartRefused(l) ==
  /\ lpc[l] = "idle"
  /\ MayRun(l)
  /\ monitoring_active
  /\ lpc' = [lpc EXCEPT ![l] = "done"]
  /\ UNCHANGED <<monitoring_active, redis_client, job_cache, l_new, l_idx, single_loop_vars,
                 ws_vars>>

\* stop_monitoring(), called by another task
LStop ==
  /\ monitoring_active
  /\ \A l \in Loops : LoopSuspended(l)
  /\ monitoring_active' = FALSE
  /\ UNCHANGED <<redis_client, job_cache, loops_vars, single_loop_vars, ws_vars>>

\* while self.monitoring_active: true, _poll_job_status() is entered
LBeginCycle(l) ==
  /\ lpc[l] = "loop"
  /\ monitoring_active
  /\ lpc' = [lpc EXCEPT ![l] = "query"]
  /\ UNCHANGED <<monitoring_active, redis_client, job_cache, l_new, l_idx, single_loop_vars,
                 ws_vars>>

\* while self.monitoring_active: false, start_monitoring returns
LExitLoop(l) ==
  /\ lpc[l] = "loop"
  /\ ~monitoring_active
  /\ lpc' = [lpc EXCEPT ![l] = "done"]
  /\ UNCHANGED <<monitoring_active, redis_client, job_cache, l_new, l_idx, single_loop_vars,
                 ws_vars>>

\* the query raises: logged, return
LQueryFail(l) ==
  /\ lpc[l] = "query"
  /\ MayRun(l)
  /\ EndCycle(l)
  /\ UNCHANGED <<monitoring_active, redis_client, job_cache, single_loop_vars, ws_vars>>

\* the query returns current_jobs; new_cache is built
LQueryReturn(l) ==
  /\ lpc[l] = "query"
  /\ MayRun(l)
  /\ \E jobs \in LoopQueryResults : l_new' = [l_new EXCEPT ![l] = BuildCache(jobs)]
  /\ l_idx' = [l_idx EXCEPT ![l] = 1]
  /\ lpc' = [lpc EXCEPT ![l] = "iterate"]
  /\ UNCHANGED <<monitoring_active, redis_client, job_cache, single_loop_vars, ws_vars>>

\* one turn of the for loop that does not call _process_job_update
LSkipJob(l) ==
  /\ lpc[l] = "iterate"
  /\ l_idx[l] <= Len(l_new[l])
  /\ ~NeedsUpdate(job_cache, l_new[l][l_idx[l]])
  /\ l_idx' = [l_idx EXCEPT ![l] = @ + 1]
  /\ UNCHANGED <<monitoring_active, redis_client, job_cache, lpc, l_new, single_loop_vars,
                 ws_vars>>

\* one turn that handles an event without a bus client: nothing in the store,
\* the alert check and the two guarded publishes suspends
LProcessNoClient(l) ==
  /\ lpc[l] = "iterate"
  /\ l_idx[l] <= Len(l_new[l])
  /\ NeedsUpdate(job_cache, l_new[l][l_idx[l]])
  /\ ~redis_client
  /\ l_idx' = [l_idx EXCEPT ![l] = @ + 1]
  /\ UNCHANGED <<monitoring_active, redis_client, job_cache, lpc, l_new, single_loop_vars,
                 ws_vars>>

\* one turn that handles an event whose alert fires: the store returns and the
\* publish on alert_notifications is awaited
LProcessAlert(l) ==
  /\ lpc[l] = "iterate"
  /\ l_idx[l] <= Len(l_new[l])
  /\ NeedsUpdate(job_cache, l_new[l][l_idx[l]])
  /\ redis_client
  /\ AlertFires(MakeEvent(job_cache, l_new[l][l_idx[l]]))
  /\ lpc' = [lpc EXCEPT ![l] = "send_alert"]
  /\ UNCHANGED <<monitoring_active, redis_client, job_cache, l_new, l_idx, single_loop_vars,
                 ws_vars>>

\* one turn that handles an event without an alert: the store returns and the
\* publish on job_updates is awaited
LProcessUpdate(l) ==
  /\ lpc[l] = "iterate"
  /\ l_idx[l] <= Len(l_new[l])
  /\ NeedsUpdate(job_cache, l_new[l][l_idx[l]])
  /\ redis_client
  /\ ~AlertFires(MakeEvent(job_cache, l_new[l][l_idx[l]]))
  /\ lpc' = [lpc EXCEPT ![l] = "publish_update"]
  /\ UNCHANGED <<monitoring_active, redis_client, job_cache, l_new, l_idx, single_loop_vars,
                 ws_vars>>

\* the publish on alert_notifications returns; the one on job_updates is awaited
LAlertOk(l) ==
  /\ lpc[l] = "send_alert"
  /\ MayRun(l)
  /\ lpc' = [lpc EXCEPT ![l] = "publish_update"]
  /\ UNCHANGED <<monitoring_active, redis_client, job_cache, l_new, l_idx, single_loop_vars,
                 ws_vars>>

\* the publish on alert_notifications raises, up to the except of start_monitoring
LAlertFail(l) ==
  /\ lpc[l] = "send_alert"
  /\ MayRun(l)
  /\ EndCycle(l)
  /\ UNCHANGED <<monitoring_active, redis_client, job_cache, single_loop_vars, ws_vars>>

\* the publish on job_updates returns; the for loop goes on
LUpdateOk(l) ==
  /\ lpc[l] = "publish_update"
  /\ MayRun(l)
  /\ lpc' = [lpc EXCEPT ![l] = "iterate"]
  /\ l_idx' = [l_idx EXCEPT ![l] = @ + 1]
  /\ UNCHANGED <<monitoring_active, redis_client, job_cache, l_new, single_loop_vars, ws_vars>>

\* the publish on job_updates raises, up to the except of start_monitoring
LUpdateFail(l) ==
  /\ lpc[l] = "publish_update"
  /\ MayRun(l)
  /\ EndCycle(l)
  /\ UNCHANGED <<monitoring_active, redis_client, job_cache, single_loop_vars, ws_vars>>

\* self.job_cache = new_cache, after the for loop
LCacheSwap(l) ==
  /\ lpc[l] = "iterate"
  /\ l_idx[l] > Len(l_new[l])
  /\ job_cache' = AsMap(l_new[l])
  /\ EndCycle(l)
  /\ UNCHANGED <<monitoring_active, redis_client, single_loop_vars, ws_vars>>

\* await asyncio.sleep(self.poll_interval) returns
LSleep(l) ==
  /\ lpc[l] = "sleep"
  /\ MayRun(l)
  /\ lpc' = [lpc EXCEPT ![l] = "loop"]
  /\ UNCHANGED <<monitoring_active, redis_client, job_cache, l_new, l_idx, single_loop_vars,
                 ws_vars>>

NextLoops ==
  \/ LInitialize
  \/ LStop
  \/ \E l \in Loops : LStart(l)
  \/ \E l \in Loops : LStartRefused(l)
  \/ \E l \in Loops : LBeginCycle(l)
  \/ \E l \in Loops : LExitLoop(l)
  \/ \E l \in Loops : LQueryFail(l)
  \/ \E l \in Loops : LQueryReturn(l)
  \/ \E l \in Loops : LSkipJob(l)
  \/ \E l \in Loops : LProcessNoClient(l)
  \/ \E l \in Loops : LProcessAlert(l)
  \/ \E l \in Loops : LProcessUpdate(l)
  \/ \E l \in Loops : LAlertOk(l)
  \/ \E l \in Loops : LAlertFail(l)
  \/ \E l \in Loops : LUpdateOk(l)
  \/ \E l \in Loops : LUpdateFail(l)
  \/ \E l \in Loops : LCacheSwap(l)
  \/ \E l \in Loops : LSleep(l)

\* ------------------------------------------------------------------------
\* WebSocketManager: values and pure helpers
\* ------------------------------------------------------------------------
\* the websocket objects; each belongs to one invocation of the endpoint
Handles == 1..NumHandles

Viewers == {"A", "B"}

\* the user_id of the endpoint invocation that owns the websocket
ViewerOf(h) == IF h % 2 = 1 THEN "A" ELSE "B"

\* self.active_connections = {} of __init__
NoConnections == << >>

\* every handle in the registry
Registered(reg) == UNION {reg[u] : u \in DOMAIN reg}

\* RegAdd that assigns a new set holding only h to the viewer
RegAdd_Replaces(reg, h, u) ==
  [v \in DOMAIN reg \cup {u} |-> IF v = u THEN {h} ELSE reg[v]]

\* the registry after connect(h, u): setdefault and add
RegAdd(reg, h, u) ==
  [v \in DOMAIN reg \cup {u} |->
     IF v = u THEN (IF u \in DOMAIN reg THEN reg[u] ELSE {}) \cup {h} ELSE reg[v]]

\* RegDiscard that deletes the viewer's key with every handle under it
RegDiscard_DropsViewer(reg, h, u) ==
  IF u \in DOMAIN reg THEN [v \in DOMAIN reg \ {u} |-> reg[v]] ELSE reg

\* RegDiscard that leaves the key of an emptied set in the dict
RegDiscard_KeepsEmptyKey(reg, h, u) ==
  IF u \in DOMAIN reg THEN [reg EXCEPT ![u] = @ \ {h}] ELSE reg

\* the registry after disconnect(h, u): discard, and del when the set is empty
RegDiscard(reg, h, u) ==
  IF u \in DOMAIN reg
  THEN (IF reg[u] \ {h} = {}
        THEN [v \in DOMAIN reg \ {u} |-> reg[v]]
        ELSE [reg EXCEPT ![u] = @ \ {h}])
  ELSE reg

RECURSIVE RegDiscardAll(_, _, _)
\* for ws in disconnected_sockets: await self.disconnect(ws, user_id)
RegDiscardAll(reg, sockets, u) ==
  IF sockets = {} THEN reg
  ELSE LET ws == CHOOSE x \in sockets : TRUE
       IN  RegDiscardAll(RegDiscard(reg, ws, u), sockets \ {ws}, u)

\* the set object the for loop of send_personal_message iterates: once it was
\* emptied and deleted from the dict nothing can add to it again
IterSet == IF it_detached THEN {} ELSE active_connections[it_user]

\* the subscriber coroutine is suspended in an await (or does not run)
SubscriberSuspended == bpc \in {"idle", "recv", "send", "backoff", "terminated"}

\* ------------------------------------------------------------------------
\* Initial state of the registry: WebSocketManager.__init__
\* ------------------------------------------------------------------------
WSInit ==
  /\ active_connections = NoConnections
  /\ conn = [h \in Handles |-> "new"]
  /\ bpc = "idle"
  /\ bc_keys = {}
  /\ it_user = "A"
  /\ it_size = 0
  /\ it_visited = {}
  /\ it_added = {}
  /\ it_detached = FALSE
  /\ it_cur = 0
  /\ disconnected_sockets = {}
  /\ bc_status = "none"
  /\ bc_start = {}
  /\ bc_sends = [h \in Handles |-> 0]
  /\ bc_failed = {}
  /\ bc_changed = FALSE
  /\ bc_kept = {}
  /\ kept = {}
  /\ connected_twice = {}
  /\ data = 0
  /\ last_sent = [h \in Handles |-> 0]
  /\ undecoded = 0
  /\ inbound = 0

iter_vars == <<it_user, it_size, it_visited, it_detached, it_cur, disconnected_sockets>>

bc_hist == <<bc_status, bc_start, bc_sends, bc_failed, bc_kept>>

\* ------------------------------------------------------------------------
\* The endpoint: one invocation per websocket
\* ------------------------------------------------------------------------
\* websocket_monitoring_endpoint -> connect: accept returned, the handle is added
Connect(h) ==
  /\ conn[h] = "new"
  /\ SubscriberSuspended
  /\ active_connections' = RegAdd(active_connections, h, ViewerOf(h))
  /\ conn' = [conn EXCEPT ![h] = "open"]
  /\ it_added' = IF bpc = "send" /\ ViewerOf(h) = it_user /\ ~it_detached
                 THEN it_added \cup {h} ELSE it_added
  /\ bc_changed' = TRUE
  /\ UNCHANGED <<bpc, bc_keys, iter_vars, bc_hist, kept>>
  /\ UNCHANGED <<poller_vars, connected_twice, relay_vars>>

\* connect(h, u) called again on a handle that is registered under u, by a
\* caller other than the endpoint; accept returns (as on the mocks of the
\* tests) and the handle is added to the set that holds it
ConnectAgain(h) ==
  /\ conn[h] = "open"
  /\ h \in Registered(active_connections)
  /\ SubscriberSuspended
  /\ active_connections' = RegAdd(active_connections, h, ViewerOf(h))
  /\ connected_twice' = connected_twice \cup {h}
  /\ bc_changed' = (bc_changed \/ active_connections' # active_connections)
  /\ UNCHANGED <<conn, bpc, bc_keys, iter_vars, it_added, bc_hist, kept>>
  /\ UNCHANGED <<poller_vars, relay_vars>>

\* the same call on a websocket whose second accept raises: connect ends with
\* the exception before it reaches the registry
ConnectAgainRaises(h) ==
  /\ conn[h] = "open"
  /\ h \in Registered(active_connections)
  /\ SubscriberSuspended
  /\ connected_twice' = connected_twice \cup {h}
  /\ UNCHANGED <<active_connections, conn, bpc, bc_keys, iter_vars, it_added, bc_hist,
                 bc_changed, kept>>
  /\ UNCHANGED <<poller_vars, relay_vars>>

\* websocket_monitoring_endpoint -> connect: accept raises, nothing is added
AcceptFails(h) ==
  /\ conn[h] = "new"
  /\ conn' = [conn EXCEPT ![h] = "closed"]
  /\ UNCHANGED <<active_connections, bpc, bc_keys, iter_vars, it_added, bc_hist, bc_changed, kept>>
  /\ UNCHANGED <<poller_vars, connected_twice, relay_vars>>

\* websocket_monitoring_endpoint: receive_text raises (WebSocketDisconnect or
\* another exception), the except branch calls disconnect
EndpointDisconnect(h) ==
  /\ conn[h] = "open"
  /\ SubscriberSuspended
  /\ active_connections' = RegDiscard(active_connections, h, ViewerOf(h))
  /\ conn' = [conn EXCEPT ![h] = "closed"]
  /\ it_detached' = (it_detached \/ (/\ bpc = "send"
                                     /\ ViewerOf(h) = it_user
                                     /\ it_user \notin DOMAIN active_connections'))
  /\ bc_changed' = (bc_changed \/ active_connections' # active_connections)
  /\ kept' = kept \ {h}
  /\ connected_twice' = connected_twice \ {h}
  /\ UNCHANGED <<bpc, bc_keys, it_user, it_size, it_visited, it_added, it_cur,
                 disconnected_sockets, bc_hist>>
  /\ UNCHANGED <<poller_vars, relay_vars>>

\* ReceiveText that echoes the text to the websocket it came from
ReceiveText_Echoes(h) ==
  /\ conn[h] = "open"
  /\ SubscriberSuspended
  /\ inbound < MaxInbound
  /\ inbound' = inbound + 1
  /\ bc_sends' = [bc_sends EXCEPT ![h] = @ + 1]
  /\ UNCHANGED <<active_connections, conn, bpc, bc_keys, iter_vars, it_added, bc_status, bc_start,
                 bc_failed, bc_kept, bc_changed, kept>>
  /\ UNCHANGED <<poller_vars, connected_twice, data, last_sent, undecoded>>

\* websocket_monitoring_endpoint: receive_text returns a text message, which
\* is logged; the loop calls receive_text again
ReceiveText(h) ==
  /\ conn[h] = "open"
  /\ SubscriberSuspended
  /\ inbound < MaxInbound
  /\ inbound' = inbound + 1
  /\ UNCHANGED <<active_connections, conn, bpc, bc_keys, iter_vars, it_added, bc_hist, bc_changed,
                 kept>>
  /\ UNCHANGED <<poller_vars, connected_twice, data, last_sent, undecoded>>

\* ------------------------------------------------------------------------
\* The subscriber loop and broadcast
\* ------------------------------------------------------------------------
\* subscribe_to_updates up to the while: the client is there, the first
\* subscribe raises; it is outside every try, the coroutine ends with it
SubscribeFails ==
  /\ bpc = "idle"
  /\ bpc' = "terminated"
  /\ UNCHANGED <<active_connections, conn, bc_keys, iter_vars, it_added, bc_hist, bc_changed, kept>>
  /\ UNCHANGED <<poller_vars, connected_twice, relay_vars>>

\* subscribe_to_updates up to the while: the client is there, subscribe returned
SubscribeToUpdates ==
  /\ bpc = "idle"
  /\ bpc' = "recv"
  /\ UNCHANGED <<active_connections, conn, bc_keys, iter_vars, it_added, bc_hist, bc_changed, kept>>
  /\ UNCHANGED <<poller_vars, connected_twice, relay_vars>>

\* get_message returns message n, json.loads returns; broadcast(data) takes
\* list(keys())
ReceiveDecoded(n) ==
  /\ bpc = "recv"
  /\ data' = n
  /\ bc_keys' = DOMAIN active_connections
  /\ bpc' = "next_user"
  /\ bc_status' = "running"
  /\ bc_start' = Registered(active_connections)
  /\ bc_sends' = [h \in Handles |-> 0]
  /\ bc_failed' = {}
  /\ bc_changed' = FALSE
  /\ bc_kept' = kept
  /\ kept' = {}
  /\ UNCHANGED <<active_connections, conn, iter_vars, it_added>>
  /\ UNCHANGED <<poller_vars, connected_twice, last_sent, undecoded, inbound>>

\* the same, the messages of the behaviour all alike
ReceiveMessage == ReceiveDecoded(data)

\* the same, the messages numbered in the order get_message returns them
ReceiveNumbered ==
  /\ data < MaxMessages
  /\ ReceiveDecoded(data + 1)

\* get_message returns a message of which json.loads raises JSONDecodeError
\* or TypeError: the inner except logs, sleep(0.01), back to get_message
ReceiveMalformed ==
  /\ bpc = "recv"
  /\ undecoded < MaxUndecoded
  /\ undecoded' = undecoded + 1
  /\ UNCHANGED <<active_connections, conn, bpc, bc_keys, iter_vars, it_added, bc_hist, bc_changed,
                 kept>>
  /\ UNCHANGED <<poller_vars, connected_twice, data, last_sent, inbound>>

\* get_message returns a message of which json.loads raises another
\* exception (RecursionError on deeply nested brackets, ValueError on an
\* integer literal over the digit limit of int): the inner except does not
\* catch it, the outer except logs and backs off
ReceiveDecodeRaisesOther ==
  /\ bpc = "recv"
  /\ undecoded < MaxUndecoded
  /\ undecoded' = undecoded + 1
  /\ bpc' = "backoff"
  /\ UNCHANGED <<active_connections, conn, bc_keys, iter_vars, it_added, bc_hist, bc_changed, kept>>
  /\ UNCHANGED <<poller_vars, connected_twice, data, last_sent, inbound>>

\* broadcast: the next user_id of the list is still a key; the for loop of
\* send_personal_message begins on its set
EnterUser ==
  /\ bpc = "next_user"
  /\ \E u \in bc_keys :
       /\ u \in DOMAIN active_connections
       /\ bc_keys' = bc_keys \ {u}
       /\ it_user' = u
       /\ it_size' = Cardinality(active_connections[u])
  /\ it_visited' = {}
  /\ it_added' = {}
  /\ it_detached' = FALSE
  /\ it_cur' = 0
  /\ disconnected_sockets' = {}
  /\ bpc' = "iter"
  /\ UNCHANGED <<active_connections, conn, bc_hist, bc_changed, kept>>
  /\ UNCHANGED <<poller_vars, connected_twice, relay_vars>>

\* broadcast: the next user_id of the list is no longer a key
SkipUser ==
  /\ bpc = "next_user"
  /\ \E u \in bc_keys :
       /\ u \notin DOMAIN active_connections
       /\ bc_keys' = bc_keys \ {u}
  /\ UNCHANGED <<active_connections, conn, bpc, iter_vars, it_added, bc_hist, bc_changed, kept>>
  /\ UNCHANGED <<poller_vars, connected_twice, relay_vars>>

\* the set iterator finds the size of its set changed: RuntimeError, which
\* leaves send_personal_message and broadcast and reaches the outer except
IterRaise ==
  /\ bpc = "iter"
  /\ Cardinality(IterSet) # it_size
  /\ bpc' = "backoff"
  /\ bc_status' = "error"
  /\ it_cur' = 0
  /\ UNCHANGED <<active_connections, conn, bc_keys, it_user, it_size, it_visited, it_added,
                 it_detached, disconnected_sockets, bc_start, bc_sends, bc_failed, bc_changed,
                 bc_kept, kept>>
  /\ UNCHANGED <<poller_vars, connected_twice, relay_vars>>

\* IterYield that sends any of the messages decoded so far
IterYield_AnyDecoded ==
  /\ bpc = "iter"
  /\ Cardinality(IterSet) = it_size
  /\ \E h \in IterSet \ it_visited :
       /\ it_cur' = h
       /\ it_visited' = it_visited \cup {h}
       /\ bc_sends' = [bc_sends EXCEPT ![h] = @ + 1]
       /\ \E n \in 0..data : last_sent' = [last_sent EXCEPT ![h] = n]
  /\ bpc' = "send"
  /\ UNCHANGED <<active_connections, conn, bc_keys, it_user, it_size, it_added, it_detached,
                 disconnected_sockets, bc_status, bc_start, bc_failed, bc_changed, bc_kept, kept>>
  /\ UNCHANGED <<poller_vars, connected_twice, data, undecoded, inbound>>

\* the set iterator yields a handle; send_json(message) is called and awaited
IterYield ==
  /\ bpc = "iter"
  /\ Cardinality(IterSet) = it_size
  /\ \E h \in IterSet \ it_visited :
       /\ it_cur' = h
       /\ it_visited' = it_visited \cup {h}
       /\ bc_sends' = [bc_sends EXCEPT ![h] = @ + 1]
       /\ last_sent' = [last_sent EXCEPT ![h] = data]
  /\ bpc' = "send"
  /\ UNCHANGED <<active_connections, conn, bc_keys, it_user, it_size, it_added, it_detached,
                 disconnected_sockets, bc_status, bc_start, bc_failed, bc_changed, bc_kept, kept>>
  /\ UNCHANGED <<poller_vars, connected_twice, data, undecoded, inbound>>

\* IterEnd that leaves the for loop after its first send
IterEnd_AfterFirst ==
  /\ bpc = "iter"
  /\ Cardinality(IterSet) = it_size
  /\ it_visited # {}
  /\ active_connections' = RegDiscardAll(active_connections, disconnected_sockets, it_user)
  /\ connected_twice' = connected_twice \ disconnected_sockets
  /\ disconnected_sockets' = {}
  /\ bpc' = "next_user"
  /\ UNCHANGED <<conn, bc_keys, it_user, it_size, it_visited, it_added, it_detached, it_cur,
                 bc_hist, bc_changed, kept>>
  /\ UNCHANGED <<poller_vars, relay_vars>>

\* the set iterator is exhausted (a handle added while the loop was suspended
\* may have been missed); the handles whose send failed are disconnected
IterEnd ==
  /\ bpc = "iter"
  /\ Cardinality(IterSet) = it_size
  /\ (IterSet \ it_visited) \subseteq it_added
  /\ active_connections' = RegDiscardAll(active_connections, disconnected_sockets, it_user)
  /\ connected_twice' = connected_twice \ disconnected_sockets
  /\ disconnected_sockets' = {}
  /\ bpc' = "next_user"
  /\ UNCHANGED <<conn, bc_keys, it_user, it_size, it_visited, it_added, it_detached, it_cur,
                 bc_hist, bc_changed, kept>>
  /\ UNCHANGED <<poller_vars, relay_vars>>

\* send_json returns
SendOk ==
  /\ bpc = "send"
  /\ bpc' = "iter"
  /\ it_cur' = 0
  /\ UNCHANGED <<active_connections, conn, bc_keys, it_user, it_size, it_visited, it_added,
                 it_detached, disconnected_sockets, bc_hist, bc_changed, kept>>
  /\ UNCHANGED <<poller_vars, connected_twice, relay_vars>>

\* send_json raises: the handle is put in disconnected_sockets
SendFail ==
  /\ bpc = "send"
  /\ disconnected_sockets' = disconnected_sockets \cup {it_cur}
  /\ bc_failed' = bc_failed \cup {it_cur}
  /\ bpc' = "iter"
  /\ it_cur' = 0
  /\ UNCHANGED <<active_connections, conn, bc_keys, it_user, it_size, it_visited, it_added,
                 it_detached, bc_status, bc_start, bc_sends, bc_kept, bc_changed, kept>>
  /\ UNCHANGED <<poller_vars, connected_twice, relay_vars>>

\* broadcast returns, sleep(0.01), back to get_message
BroadcastDone ==
  /\ bpc = "next_user"
  /\ bc_keys = {}
  /\ bpc' = "recv"
  /\ bc_status' = "done"
  /\ kept' = IF bc_failed # {} THEN Registered(active_connections) ELSE {}
  /\ UNCHANGED <<active_connections, conn, bc_keys, iter_vars, it_added, bc_start, bc_sends,
                 bc_failed, bc_kept, bc_changed>>
  /\ UNCHANGED <<poller_vars, connected_twice, relay_vars>>

\* get_message raises (the bus is gone): the outer except logs and backs off
ReceiveFails ==
  /\ bpc = "recv"
  /\ bpc' = "backoff"
  /\ UNCHANGED <<active_connections, conn, bc_keys, iter_vars, it_added, bc_hist, bc_changed, kept>>
  /\ UNCHANGED <<poller_vars, connected_twice, relay_vars>>

\* the outer except: sleep(5), a new pubsub, subscribe raises; the statement
\* is in the except block itself, so the exception leaves the while loop and
\* ends the coroutine
ResubscribeFails ==
  /\ bpc = "backoff"
  /\ bpc' = "terminated"
  /\ UNCHANGED <<active_connections, conn, bc_keys, iter_vars, it_added, bc_hist, bc_changed, kept>>
  /\ UNCHANGED <<poller_vars, connected_twice, relay_vars>>

\* the outer except: sleep(5), a new pubsub, subscribe returned
Resubscribe ==
  /\ bpc = "backoff"
  /\ bpc' = "recv"
  /\ UNCHANGED <<active_connections, conn, bc_keys, iter_vars, it_added, bc_hist, bc_changed, kept>>
  /\ UNCHANGED <<poller_vars, connected_twice, relay_vars>>

NextWS ==
  \/ \E h \in Handles : Connect(h)
  \/ \E h \in Handles : ConnectAgain(h)
  \/ \E h \in Handles : ConnectAgainRaises(h)
  \/ \E h \in Handles : AcceptFails(h)
  \/ \E h \in Handles : EndpointDisconnect(h)
  \/ SubscribeToUpdates
  \/ SubscribeFails
  \/ ReceiveMessage
  \/ ReceiveFails
  \/ EnterUser
  \/ SkipUser
  \/ IterRaise
  \/ IterYield
  \/ IterEnd
  \/ SendOk
  \/ SendFail
  \/ BroadcastDone
  \/ Resubscribe
  \/ ResubscribeFails

\* the websockets of the relay model
RelayHandles == 1..MaxRelayHandles

\* the relay: numbered messages, undecodable payloads, inbound texts
NextRelay ==
  \/ \E h \in RelayHandles : Connect(h)
  \/ \E h \in RelayHandles : EndpointDisconnect(h)
  \/ \E h \in RelayHandles : ReceiveText(h)
  \/ SubscribeToUpdates
  \/ ReceiveNumbered
  \/ ReceiveMalformed
  \/ ReceiveDecodeRaisesOther
  \/ EnterUser
  \/ SkipUser
  \/ IterRaise
  \/ IterYield
  \/ IterEnd
  \/ SendOk
  \/ SendFail
  \/ BroadcastDone
  \/ Resubscribe

\* ------------------------------------------------------------------------
\* Specifications
\* ------------------------------------------------------------------------
Init == PollerInit /\ WSInit

\* the poller alone
Spec == Init /\ [][Next]_vars

\* the registry, the endpoints and the subscriber loop alone
SpecWS == Init /\ [][NextWS]_vars

\* the relay of numbered messages from the bus to the websockets
SpecRelay == Init /\ [][NextRelay]_vars

\* the poller alone, with the unpublished events tracked
SpecTracked == Init /\ [][NextTracked]_vars

\* the poller alone, with the aborted cycles tracked
SpecResumed == Init /\ [][NextResumed]_vars

\* the poller alone, with the removed cache entries tracked
SpecReappear == Init /\ [][NextReappear]_vars

\* several calls of start_monitoring and stop_monitoring on the one service
SpecLoops == Init /\ [][NextLoops]_vars

\* the poller alone, with the scheduling of asyncio: every await of the loop
\* (query, publish, sleep) returns or raises, and a coroutine that can run does
SpecFair == Init /\ [][NextFair]_vars /\ WF_vars(LoopStep)

\* ------------------------------------------------------------------------
\* Properties of the poller
\* ------------------------------------------------------------------------
\* the events of the current cycle that are about job `name`
EventsOf(name) == {k \in DOMAIN events : events[k].job_name = name}

\* the cycle's query returned and the cycle has ended (completed or aborted)
CycleEndedAfterQuery == cycle \in {"completed", "aborted"}

\* the last record of the query result with a given non-empty name, and the
\* name-keyed map of the whole result, written from the result alone
LastRecordOf(jobs, name) ==
  jobs[CHOOSE i \in DOMAIN jobs :
         /\ jobs[i].jobStreamName = name
         /\ \A k \in DOMAIN jobs : jobs[k].jobStreamName = name => k <= i]

NameKeyedMap(jobs) ==
  [name \in {jobs[i].jobStreamName : i \in DOMAIN jobs} \ {NoName} |-> LastRecordOf(jobs, name)]

\* the non-empty job names of the result of the cycle's query
NamesPolled == {current_jobs[i].jobStreamName : i \in DOMAIN current_jobs} \ {NoName}

\* C1 - Failure isolation: when the source query of a poll cycle raises, the
\* cycle ends with the cache equal to its value before the cycle and with no
\* event, no history write and no publish on either channel in that cycle.
C1_FailureIsolation ==
  cycle = "query_failed" =>
    /\ job_cache = pre_cache
    /\ events = << >>
    /\ stores = << >>
    /\ published = << >>

\* C1 witness: a cycle whose query failed has ended, over a non-empty cache.
C1_Witness ==
  /\ cycle = "query_failed"
  /\ pc = "sleep"
  /\ pre_cache # EmptyCache

\* C2 - Atomic cache swap: the cache changes only in the last step of a poll
\* cycle, after every job of the new map that needed an event has had its event
\* handled to the end, and its new value is the complete name-keyed map of the
\* result of that cycle's query (so it is always the initial empty map or the
\* map of one successful poll, never a mix).
C2_AtomicCacheSwap ==
  [][job_cache' # job_cache =>
       /\ pc = "iterate" /\ pc' = "sleep" /\ cycle' = "completed"
       /\ handled = Len(events)
       /\ \A name \in DOMAIN NameKeyedMap(current_jobs) :
            (name \notin DOMAIN job_cache
               \/ job_cache[name].status # NameKeyedMap(current_jobs)[name].status)
            => EventsOf(name) # {}
       /\ job_cache' = NameKeyedMap(current_jobs)]_vars

\* C2 witness: a cycle that handled two events has swapped the cache.
C2_Witness ==
  /\ cycle = "completed"
  /\ job_cache # pre_cache
  /\ handled = 2
  /\ job_cache = NameKeyedMap(current_jobs)

\* C3 - New-job sentinel: in every poll cycle whose query succeeds, every job
\* of the new snapshot that is absent from the pre-cycle cache gets exactly one
\* event, with old_status "NEW" and new_status the snapshot's status (read as
\* "UNKNOWN" when the record has none).
C3_NewJobSentinel ==
  CycleEndedAfterQuery =>
    \A name \in DOMAIN NameKeyedMap(current_jobs) \ DOMAIN pre_cache :
      /\ Cardinality(EventsOf(name)) = 1
      /\ \A k \in EventsOf(name) :
           /\ events[k].old_status = "NEW"
           /\ events[k].new_status =
                (IF NameKeyedMap(current_jobs)[name].status = NoStatus THEN "UNKNOWN"
                 ELSE NameKeyedMap(current_jobs)[name].status)

\* C4 - Status-change detection: in every poll cycle whose query succeeds, a
\* job present in the pre-cycle cache and in the new snapshot with a different
\* status gets exactly one event carrying the cached and the new status, and a
\* job present in both with the same status gets none (statuses that are
\* absent from a record are left out of the comparison of values).
C4_StatusChangeDetection ==
  CycleEndedAfterQuery =>
    \A name \in DOMAIN NameKeyedMap(current_jobs) \cap DOMAIN pre_cache :
      LET old == pre_cache[name].status
          new == NameKeyedMap(current_jobs)[name].status
      IN  /\ (old = new) => EventsOf(name) = {}
          /\ (old # new /\ old # NoStatus /\ new # NoStatus) =>
               /\ Cardinality(EventsOf(name)) = 1
               /\ \A k \in EventsOf(name) :
                    events[k].old_status = old /\ events[k].new_status = new

\* C5 - Idempotence: when a poll returns the snapshot set the cache already
\* holds (the one of the last completed cycle), the cycle emits no event,
\* writes no history, publishes on neither channel, cannot abort, and leaves
\* the cache equal to what it was.
C5_Idempotence ==
  (cycle \in {"running", "completed", "aborted"} /\ pc # "query"
     /\ NameKeyedMap(current_jobs) = pre_cache) =>
    /\ events = << >>
    /\ stores = << >>
    /\ published = << >>
    /\ cycle # "aborted"
    /\ job_cache = pre_cache

\* C5 witness: a second poll with the same non-empty snapshot set has completed.
C5_Witness ==
  /\ cycle = "completed"
  /\ pre_cache # EmptyCache
  /\ DOMAIN pre_cache = JobNames
  /\ NameKeyedMap(current_jobs) = pre_cache

\* the critical-status set of the alert rule, as the specification gives it
CriticalSet == {"ABEND", "ERROR", "FAIL"}

\* the event under handling crosses into the critical set
CrossesIntoCritical == event.new_status \in CriticalSet /\ event.old_status \notin CriticalSet

\* C6 (as stated) - Alert rule: for every event, _check_alert_rules publishes
\* an alert if and only if new_status is critical and old_status is not.
C6_AlertRule_Original ==
  pc = "publish_update" => (event_alerts = 1 <=> CrossesIntoCritical)

\* C6 (amended) - Alert rule: for every event, _check_alert_rules makes one
\* publish call on alert_notifications if and only if new_status is critical,
\* old_status is not, and the poller has a bus client; it never makes more
\* than one per event, and none for an event that does not cross.
C6_AlertRule ==
  /\ event_alerts <= 1
  /\ event_alerts = 1 => CrossesIntoCritical
  /\ pc = "publish_update" => (event_alerts = 1 <=> (CrossesIntoCritical /\ redis_client))
  /\ Cardinality({k \in DOMAIN published :
                    published[k].channel = "alert_notifications"
                    /\ published[k].job_name = event.job_name}) = event_alerts

\* C6 witness: the alert check of an event EXEC -> ABEND has published.
C6_Witness ==
  /\ pc = "publish_update"
  /\ event.old_status = "EXEC"
  /\ event.new_status = "ABEND"
  /\ event_alerts = 1

\* C7 - At most one alert per transition: once an alert has been published
\* for a job, no further alert is published for it while every later
\* observation of it is still a critical status (the count restarts when a
\* successful poll shows the job healthy or not at all).
C7_AtMostOneAlertPerTransition ==
  \A name \in JobNames : alert_count[name] <= 1

\* a publish call of the current cycle raised
PublishFailed == \E k \in DOMAIN published : ~published[k].ok

\* C13 - Publish failure does not block the cycle: when a publish on
\* job_updates or alert_notifications raises while an event is handled, the
\* poll cycle still handles the remaining events of the cycle (every job of
\* the snapshot that is new or has changed gets its event) and still replaces
\* the cache with the new snapshot map.
C13_PublishFailureDoesNotBlock ==
  (pc = "sleep" /\ PublishFailed) =>
    /\ cycle = "completed"
    /\ job_cache = NameKeyedMap(current_jobs)
    /\ \A name \in DOMAIN NameKeyedMap(current_jobs) :
         (name \notin DOMAIN pre_cache
            \/ pre_cache[name].status # NameKeyedMap(current_jobs)[name].status)
         => EventsOf(name) # {}

\* What the code does: the first publish that raises ends the cycle at once,
\* with the cache as it was before the cycle.
PublishFailureAbortsCycle ==
  PublishFailed =>
    /\ cycle = "aborted"
    /\ pc = "sleep" \/ pc = "loop" \/ pc = "done"
    /\ job_cache = pre_cache
    /\ handled < Len(events)
    /\ Cardinality({k \in DOMAIN published : ~published[k].ok}) = 1

\* The history write of the code is a stub that logs and returns: every event
\* passed to _handle_status_change is passed to it and gets past it, so no
\* cycle of the code meets a failed history write.
HistoryWriteAlwaysReturns ==
  /\ pc = "store" => Len(stores) + 1 = Len(events)
  /\ pc # "store" => stores = events

\* C15 - Single cache writer: under any sequence of start_monitoring and
\* stop_monitoring calls (a stop followed by a start while the first loop is
\* suspended in its sleep or in a poll included), at most one polling loop is
\* running and at most one poll cycle is in progress at any time.
C15_SingleCacheWriter ==
  /\ Cardinality({l \in Loops : LoopRunning(l)}) <= 1
  /\ Cardinality({l \in Loops : InPollCycle(l)}) <= 1

\* What the flag does guarantee: a call of start_monitoring made while the
\* flag is set returns at once, so a second loop begins only after a stop.
SecondLoopOnlyAfterStop ==
  [][\A l \in Loops : (lpc[l] = "idle" /\ lpc'[l] = "loop") => ~monitoring_active]_vars

CaseFold(status) ==
  CASE status = "EXEC"  -> "exec"
    [] status = "ABEND" -> "abend"
    [] status = "ERROR" -> "error"
    [] OTHER            -> status

\* C19 - Case-insensitive status comparison: the diff compares the cached and
\* the new status without regard to letter case, so a job whose status differs
\* from its cached status only in case produces no status-change event.
C19_CaseInsensitiveStatus ==
  \A name \in DOMAIN NameKeyedMap(current_jobs) \cap DOMAIN pre_cache :
    CaseFold(pre_cache[name].status) = CaseFold(NameKeyedMap(current_jobs)[name].status)
      => EventsOf(name) = {}

\* What the code does: the two statuses are compared as they are, so a job
\* whose status is the cached one letter for letter produces no event.
ExactStatusComparison ==
  \A name \in DOMAIN NameKeyedMap(current_jobs) \cap DOMAIN pre_cache :
    pre_cache[name].status = NameKeyedMap(current_jobs)[name].status
      => EventsOf(name) = {}

\* C20 - At most one event per job per cycle: in any single poll cycle each
\* job name gives rise to at most one status-change event, also when the
\* source returns several records with the same job name.
C20_AtMostOneEventPerJob ==
  \A name \in JobNames : Cardinality(EventsOf(name)) <= 1

\* C20 witness: the query returned two records of JOB_A with different
\* statuses, and the cycle has completed with one event for JOB_A.
C20_Witness ==
  /\ cycle = "completed"
  /\ Len(current_jobs) = 2
  /\ current_jobs[1].jobStreamName = "JOB_A"
  /\ current_jobs[2].jobStreamName = "JOB_A"
  /\ current_jobs[1].status # current_jobs[2].status
  /\ Cardinality(EventsOf("JOB_A")) = 1

\* C21 - Disappeared jobs are silent: a job present in the pre-cycle cache
\* and absent from a successfully queried snapshot produces no status-change
\* event, no history write, no publish and no alert in that cycle.
C21_DisappearedJobsSilent ==
  (cycle \in {"running", "completed", "aborted"} /\ pc # "query") =>
    \A name \in DOMAIN pre_cache \ DOMAIN NameKeyedMap(current_jobs) :
      /\ EventsOf(name) = {}
      /\ \A k \in DOMAIN stores : stores[k].job_name # name
      /\ \A k \in DOMAIN published : published[k].job_name # name
      /\ event.job_name # name

\* C21 witness: JOB_A was cached in a critical status and is absent from the
\* snapshot of a cycle that has completed with an event for JOB_B.
C21_Witness ==
  /\ cycle = "completed"
  /\ "JOB_A" \in DOMAIN pre_cache
  /\ pre_cache["JOB_A"].status = "ABEND"
  /\ "JOB_A" \notin DOMAIN NameKeyedMap(current_jobs)
  /\ EventsOf("JOB_B") # {}
  /\ published # << >>

\* the publish calls of the current cycle on `channel` that are about `name`
PublishedOn(channel, name) ==
  {k \in DOMAIN published : published[k].channel = channel /\ published[k].job_name = name}

\* C22 - First-sight alert: a job absent from the cache whose first observed
\* status is in the critical set (NEW -> ABEND) produces one status-change
\* event and one alert in that cycle (stated of a poller that has its bus
\* client, and counting a publish call that raised as an alert).
C22_FirstSightAlert ==
  (CycleEndedAfterQuery /\ redis_client) =>
    \A name \in DOMAIN NameKeyedMap(current_jobs) \ DOMAIN pre_cache :
      NameKeyedMap(current_jobs)[name].status \in CriticalSet =>
        /\ Cardinality(EventsOf(name)) = 1
        /\ \A k \in EventsOf(name) :
             events[k].old_status = "NEW"
             /\ events[k].new_status = NameKeyedMap(current_jobs)[name].status
        /\ Cardinality(PublishedOn("alert_notifications", name)) = 1

\* What the code does keep: when the event of such a job is handled with a bus
\* client, it carries NEW and the critical status, and its alert check makes
\* one publish call on alert_notifications.
FirstSightAlert_PerEvent ==
  (pc = "publish_update" /\ redis_client /\ event.job_name \notin DOMAIN pre_cache
     /\ NameKeyedMap(current_jobs)[event.job_name].status \in CriticalSet) =>
    /\ event.old_status = "NEW"
    /\ event.new_status = NameKeyedMap(current_jobs)[event.job_name].status
    /\ Cardinality(PublishedOn("alert_notifications", event.job_name)) = 1

\* C23 - Channel and envelope invariant: every message the poller publishes
\* goes to job_updates or alert_notifications and to no other channel; every
\* message on job_updates has type "job_status_update" and every message on
\* alert_notifications has type "alert_notification"; no message describing an
\* error is published: every message is about an event of the cycle, and a
\* failed query or a publish that raised is followed by no publish.
C23_ChannelEnvelope ==
  /\ \A k \in DOMAIN published :
       /\ published[k].channel \in {"job_updates", "alert_notifications"}
       /\ published[k].channel = "job_updates" => published[k].type = "job_status_update"
       /\ published[k].channel = "alert_notifications" => published[k].type = "alert_notification"
       /\ \E e \in DOMAIN events : events[e].job_name = published[k].job_name
       /\ ~published[k].ok => k = Len(published)
  /\ cycle = "query_failed" => published = << >>

\* C23 witness: a cycle has published an alert and an update, both accepted
\* by the bus, and then met a publish that raised.
C23_Witness ==
  /\ cycle = "aborted"
  /\ Len(published) = 3
  /\ published[1].channel = "alert_notifications" /\ published[1].ok
  /\ published[2].channel = "job_updates" /\ published[2].ok
  /\ ~published[3].ok

\* C24 - One store and one update per event: for every status-change event
\* handled with a bus client present and no failure, _handle_status_change
\* makes exactly one history write of that event and exactly one publish on
\* job_updates for it, and exactly one publish on alert_notifications when the
\* alert rule fires (the event crosses into the critical set) and none
\* otherwise.
C24_OneStoreOneUpdate ==
  (pc \in {"iterate", "store", "check_alert", "publish_update"}
     /\ redis_client /\ ~PublishFailed) =>
    \A k \in 1..handled :
      /\ Cardinality({i \in DOMAIN stores : stores[i] = events[k]}) = 1
      /\ Cardinality(PublishedOn("job_updates", events[k].job_name)) = 1
      /\ Cardinality(PublishedOn("alert_notifications", events[k].job_name)) =
           (IF events[k].new_status \in CriticalSet /\ events[k].old_status \notin CriticalSet
            THEN 1 ELSE 0)

\* C24 witness: with a bus client, a cycle has handled two events without a
\* failure, one that crosses into the critical set and one that does not.
C24_Witness ==
  /\ pc = "iterate"
  /\ redis_client
  /\ ~PublishFailed
  /\ handled = 2
  /\ Len(stores) = 2
  /\ Len(published) = 3

\* C25: per-job ordering on the bus. The updates of one job are published
\* in the order of the poll cycles (one loop, each publish awaited inline), and
\* an update about to be published for a job continues the chain: when the
\* bus accepted an earlier update of the job and since then no publish raised
\* and no snapshot lacked the job, its old_status is the new_status of that
\* earlier update.
C25_PerJobOrdering ==
  (pc = "publish_update" /\ redis_client /\ last_update[event.job_name] # "none") =>
    event.old_status = last_update[event.job_name]

\* the chain of C25 for the jobs whose records always carry a status
ChainHoldsWithStatus ==
  (/\ pc = "publish_update"
   /\ redis_client
   /\ last_update[event.job_name] \notin {"none", "UNKNOWN"}
   /\ event.new_status # "UNKNOWN") =>
    event.old_status = last_update[event.job_name]

\* a poll cycle has failed: its query raised, or the handling of one of its
\* events raised
CycleFailed == cycle \in {"query_failed", "aborted"}

\* C29 - Poller keeps going: a poll cycle that fails does not end the polling
\* loop. The failure takes the loop to its interval sleep, the loop returns
\* only at its while test with the flag clear, and while monitoring stays
\* active the sleep after a failed cycle is followed by the start of another
\* poll cycle.
C29_PollerKeepsGoing ==
  /\ [][(CycleFailed' /\ cycle = "running") => pc' = "sleep"]_vars
  /\ [][(pc' = "done" /\ pc # "done") => (pc = "loop" /\ ~monitoring_active)]_vars
  /\ ((CycleFailed /\ pc = "sleep") ~> (pc = "query" \/ ~monitoring_active))

\* C29 witness: the publish of an update raised, the cycle was aborted, the
\* sleep has returned and the loop is at its while test with the flag set.
C29_Witness ==
  /\ cycle = "aborted"
  /\ PublishFailed
  /\ pc = "loop"
  /\ monitoring_active

\* the job of the cycle's query result differs from the pre-cycle cache: it
\* has no entry there, or an entry of another status
Changed(name) ==
  \/ name \notin DOMAIN pre_cache
  \/ pre_cache[name].status # NameKeyedMap(current_jobs)[name].status

\* C32 - Aborted cycle: when the handling of an event raises, the cycle stops
\* at that event (it is the last event and the only one not handled to the
\* end, and the publish that raised is the last of the cycle), the cache keeps
\* its pre-cycle value, the publishes already made in the cycle stay as they
\* are, and the next cycle that sees the same snapshot emits an event again
\* for every changed job.
C32_AbortedCycle ==
  /\ [](cycle = "aborted" =>
          /\ job_cache = pre_cache
          /\ handled = Len(events) - 1
          /\ ~published[Len(published)].ok
          /\ \A k \in 1..(Len(published) - 1) : published[k].ok)
  /\ [][(cycle = "running" /\ cycle' = "aborted") =>
          SubSeq(published', 1, Len(published)) = published]_vars
  /\ []((resumed /\ CycleEndedAfterQuery) =>
          \A name \in DOMAIN NameKeyedMap(current_jobs) : Changed(name) => EventsOf(name) # {})

\* what the code keeps of C32: the aborted cycle stops at its event and leaves
\* the cache and the earlier publishes alone; the next cycle that sees the
\* same snapshot starts from the same cache, emits an event again for the
\* first changed job, and for every changed job when it runs to its swap
AbortedCycle_Resumed ==
  /\ [](cycle = "aborted" =>
          /\ job_cache = pre_cache
          /\ handled = Len(events) - 1
          /\ ~published[Len(published)].ok
          /\ \A k \in 1..(Len(published) - 1) : published[k].ok)
  /\ [][(cycle = "running" /\ cycle' = "aborted") =>
          SubSeq(published', 1, Len(published)) = published]_vars
  /\ [][(cycle = "aborted" /\ pc = "loop" /\ pc' = "query") => pre_cache' = pre_cache]_vars
  /\ []((resumed /\ CycleEndedAfterQuery) => events # << >>)
  /\ []((resumed /\ cycle = "completed") =>
          \A name \in DOMAIN NameKeyedMap(current_jobs) : Changed(name) => EventsOf(name) # {})

\* the for loop of the cycle has ended: it ran to its end, or an event raised
ForLoopEnded ==
  \/ cycle = "aborted"
  \/ (cycle = "running" /\ pc = "iterate" /\ idx > Len(new_cache))

\* C33 - Disappear and reappear: a job absent from a successfully queried
\* snapshot is dropped from the cache by that cycle's swap; when it appears
\* again in a later poll, the cycle of that poll reports it with one event of
\* old_status "NEW", and with a bus client makes one publish on
\* alert_notifications for it if its status is then critical, whatever its
\* status was before it disappeared.
C33_DisappearAndReappear ==
  /\ [](cycle = "completed" =>
          \A name \in DOMAIN pre_cache \ NamesPolled : name \notin DOMAIN job_cache)
  /\ [](ForLoopEnded =>
          \A name \in NamesPolled :
            dropped[name] # "none" =>
              /\ Cardinality(EventsOf(name)) = 1
              /\ \A k \in EventsOf(name) : events[k].old_status = "NEW"
              /\ (redis_client /\ NameKeyedMap(current_jobs)[name].status \in CriticalSet) =>
                   Cardinality(PublishedOn("alert_notifications", name)) = 1)

\* what the code keeps of C33: the swap drops the absent job, every event of
\* a job that reappears carries old_status "NEW", the alert check of such an
\* event of critical status publishes with a bus client, and a for loop that
\* runs to its end has reported the job once
Reappear_PerEvent ==
  /\ [](cycle = "completed" =>
          \A name \in DOMAIN pre_cache \ NamesPolled : name \notin DOMAIN job_cache)
  /\ [](\A name \in JobNames :
          dropped[name] # "none" =>
            /\ name \notin DOMAIN job_cache
            /\ \A k \in EventsOf(name) : events[k].old_status = "NEW")
  /\ []((/\ pc = "publish_update"
         /\ dropped[event.job_name] # "none"
         /\ redis_client
         /\ event.new_status \in CriticalSet) => event_alerts = 1)
  /\ []((cycle = "running" /\ pc = "iterate" /\ idx > Len(new_cache)) =>
          \A name \in NamesPolled :
            dropped[name] # "none" => Cardinality(EventsOf(name)) = 1)

\* the publishes of the cycle, on either channel, for job `name`
PublishesOf(name) == {k \in DOMAIN published : published[k].job_name = name}

\* the position in the cycle's events of the event of job `name`
EventIndex(name) == CHOOSE k \in DOMAIN events : events[k].job_name = name

\* C35 - Per-event step order: for every event the history write happens
\* first (before it nothing is published for the event), then the alert check
\* with its publish on alert_notifications, then the publish on job_updates
\* (the last publish of the event); and the steps of one event have all
\* finished when the first step of the next event of the cycle begins: the
\* history writes and the publishes follow the order of the events, and an
\* event is under way only when every earlier event is handled.
C35_PerEventStepOrder ==
  [](/\ \A k \in DOMAIN stores : k <= Len(events) /\ stores[k] = events[k]
     /\ pc = "store" =>
          (Len(stores) = Len(events) - 1 /\ PublishesOf(event.job_name) = {})
     /\ pc = "check_alert" =>
          (Len(stores) = Len(events) /\ PublishesOf(event.job_name) = {})
     /\ pc = "publish_update" =>
          (Len(stores) = Len(events) /\ PublishedOn("job_updates", event.job_name) = {})
     /\ \A i, j \in DOMAIN published :
          (published[i].job_name = published[j].job_name
           /\ published[i].channel = "job_updates") => j <= i
     /\ \A i, j \in DOMAIN published :
          i < j => EventIndex(published[i].job_name) <= EventIndex(published[j].job_name)
     /\ pc \in {"store", "check_alert", "publish_update"} =>
          (handled = Len(events) - 1 /\ event = events[Len(events)])
     /\ pc = "iterate" => (handled = Len(events) /\ Len(stores) = Len(events)))

\* C35 witness: with a bus client, the first event of the cycle was stored,
\* alerted and published; the second event has been created and its history
\* write is about to happen.
C35_Witness ==
  /\ pc = "store"
  /\ redis_client
  /\ Len(events) = 2
  /\ handled = 1
  /\ Len(stores) = 1
  /\ Len(published) = 2
  /\ published[1].channel = "alert_notifications"
  /\ published[2].channel = "job_updates"

\* C34 - Sentinel only for unseen jobs: an event of a cycle has old_status
\* "NEW" only if its job had no entry in the pre-cycle cache; a job with a
\* cached snapshot, with or without a status field, is never reported with
\* old_status "NEW".
C34_SentinelOnlyForUnseen ==
  \A k \in DOMAIN events :
    events[k].old_status = "NEW" => events[k].job_name \notin DOMAIN pre_cache

\* the sentinel of C34 for the cached snapshots that carry a status
SentinelOnlyForUnseen_WithStatus ==
  \A k \in DOMAIN events :
    (/\ events[k].old_status = "NEW"
     /\ events[k].job_name \in DOMAIN pre_cache)
    => pre_cache[events[k].job_name].status = NoStatus

\* C37 - Nameless records are ignored: a record of the query result without a
\* job name produces no event and no cache entry: every event of the cycle
\* and every entry of the new map is about a non-empty name of the result,
\* and every key of the cache after a swap is a non-empty job name that was
\* present in that poll's result.
C37_NamelessRecordsIgnored ==
  [](/\ \A k \in DOMAIN events : events[k].job_name \in NamesPolled
     /\ \A i \in DOMAIN new_cache : new_cache[i].jobStreamName \in NamesPolled
     /\ NoName \notin DOMAIN job_cache
     /\ cycle = "completed" => DOMAIN job_cache = NamesPolled)

\* C37 witness: the query returned a nameless record and a record of JOB_A;
\* the cycle emitted one event and swapped in a cache of one entry.
C37_Witness ==
  /\ cycle = "completed"
  /\ Len(current_jobs) = 2
  /\ \E i \in DOMAIN current_jobs : current_jobs[i].jobStreamName = NoName
  /\ DOMAIN job_cache = {"JOB_A"}
  /\ Len(events) = 1

\* C36 - No bus client: a poll cycle of a poller without a bus client
\* publishes nothing on either channel and raises nothing, yet at the end of
\* its for loop it swaps the cache, and the transitions it detected are never
\* published by a later cycle: no publish is made for a job while the status
\* that such a cycle reported for it is the status the polls show.
C36_NoBusClient ==
  /\ [](~redis_client => (published = << >> /\ cycle # "aborted"))
  /\ [][(~redis_client /\ pc = "iterate" /\ idx > Len(new_cache)) =>
          (cycle' = "completed" /\ job_cache' = NameKeyedMap(current_jobs))]_vars
  /\ [](\A k \in DOMAIN published : unpublished[published[k].job_name] = "none")

\* C36 witness: a cycle without a bus client reported JOB_A as ABEND; the
\* client was set afterwards, and a later cycle that polled JOB_A as ABEND
\* again has completed without a publish.
C36_Witness ==
  /\ redis_client
  /\ cycle = "completed"
  /\ unpublished["JOB_A"] = "ABEND"
  /\ current_jobs = <<[jobStreamName |-> "JOB_A", status |-> "ABEND"]>>
  /\ published = << >>

\* ------------------------------------------------------------------------
\* Properties of the registry and the broadcast
\* ------------------------------------------------------------------------
\* a broadcast has ended, by returning or by an exception that left it
BroadcastEnded == bc_status \in {"done", "error"}

\* C8 - Dead-connection isolation: when a send to a handle fails during a
\* broadcast, that handle is removed from the registry, and every other handle
\* registered at the call whose endpoint has not disconnected was sent the
\* message in that broadcast and is still registered (so that the next
\* broadcast sends to it).
C8_DeadConnectionIsolation ==
  (BroadcastEnded /\ bc_failed # {}) =>
    /\ \A h \in bc_failed : h \notin Registered(active_connections)
    /\ \A h \in bc_start \ bc_failed :
         conn[h] = "open" => (bc_sends[h] = 1 /\ h \in Registered(active_connections))

\* The same holds of every broadcast that returns without an exception,
\* whatever connects or disconnects meanwhile: only the RuntimeError of the set
\* iterator breaks it.
DeadConnectionIsolation_WithoutError ==
  (bc_status = "done" /\ bc_failed # {}) =>
    /\ \A h \in bc_failed : h \notin Registered(active_connections)
    /\ \A h \in bc_start \ bc_failed :
         conn[h] = "open" => (bc_sends[h] = 1 /\ h \in Registered(active_connections))

\* Without a concurrent connect or disconnect a broadcast never raises; the
\* handles whose send failed are exactly the ones it removes, every handle
\* registered at the call is sent the message, and the handles a broadcast
\* with a failed send left registered are sent the next broadcast.
DeadConnectionIsolation_Sequential ==
  ~bc_changed =>
    /\ bc_status # "error"
    /\ bc_status = "done" =>
         /\ Registered(active_connections) = bc_start \ bc_failed
         /\ \A u \in Viewers :
              u \in DOMAIN active_connections =>
                active_connections[u] = {h \in bc_start \ bc_failed : ViewerOf(h) = u}
         /\ \A h \in bc_start : bc_sends[h] = 1
         /\ \A h \in bc_kept : bc_sends[h] = 1

\* C9 - Broadcast fan-out: a broadcast with no concurrent registry change
\* makes exactly one send per handle registered at the call, across all
\* viewers, and no send to a handle that was not registered.
C9_BroadcastFanOut ==
  ~bc_changed =>
    /\ \A h \in Handles : bc_sends[h] <= (IF h \in bc_start THEN 1 ELSE 0)
    /\ bc_status = "done" =>
         \A h \in Handles : bc_sends[h] = (IF h \in bc_start THEN 1 ELSE 0)

\* C9 witness: viewer A has two handles and B one; the broadcast has made
\* three sends.
C9_Witness ==
  /\ bc_status = "done"
  /\ ~bc_changed
  /\ Cardinality({h \in bc_start : ViewerOf(h) = "A"}) = 2
  /\ Cardinality({h \in bc_start : ViewerOf(h) = "B"}) = 1
  /\ \A h \in bc_start : bc_sends[h] = 1
  /\ bc_failed = {}

\* C10 - Registry invariant: in every state, whatever the interleaving of
\* connects, disconnects, broadcasts and send failures, a viewer id is a key
\* of active_connections exactly when it has at least one registered handle.
C10_RegistryInvariant ==
  /\ DOMAIN active_connections \subseteq Viewers
  /\ \A u \in DOMAIN active_connections :
       /\ active_connections[u] # {}
       /\ \A h \in active_connections[u] : ViewerOf(h) = u

\* C10 witness: a viewer's last handle disconnected while the broadcast was
\* suspended in a send to it, and the viewer's key is gone.
C10_Witness ==
  /\ bc_status = "error"
  /\ it_detached
  /\ it_user \notin DOMAIN active_connections
  /\ bc_failed # {}

\* C11 - Concurrency-safe registry: when a connect or a disconnect of a viewer
\* runs while the broadcast is suspended in a send to one of that viewer's
\* handles, the broadcast still returns without an exception (so that the
\* subscriber loop does not back off), and every handle that stays registered
\* for the whole broadcast is sent the message exactly once.
C11_ConcurrencySafeRegistry ==
  /\ bc_status # "error"
  /\ ~(bpc = "backoff" /\ bc_status = "error")
  /\ bc_status = "done" =>
       \A h \in bc_start \cap Registered(active_connections) : bc_sends[h] = 1

\* What the code does keep under a concurrent change: a broadcast that returns
\* has sent exactly once to every handle that was registered throughout.
ConcurrentChange_WithoutError ==
  bc_status = "done" =>
    \A h \in bc_start \cap Registered(active_connections) : bc_sends[h] = 1

\* ------------------------------------------------------------------------
\* Properties of the subscriber loop
\* ------------------------------------------------------------------------
\* C12 - Subscriber resilience: once subscribe_to_updates has started with a
\* bus client, no sequence of bus errors, on receive or on subscribe (the bus
\* may still be unavailable when the loop re-subscribes after its backoff),
\* makes the loop terminate: the coroutine is always in its first subscribe, in
\* its loop or in its backoff.
C12_SubscriberResilience ==
  bpc # "terminated"

\* What the code does keep: an error of get_message or of the broadcast never
\* ends the coroutine by itself; it ends only by a subscribe that raises.
SubscriberEndsOnlyOnSubscribe ==
  [][bpc' = "terminated" => bpc \in {"idle", "backoff", "terminated"}]_vars

\* ------------------------------------------------------------------------
\* Properties of connect and disconnect
\* ------------------------------------------------------------------------
\* the sets of every viewer but u are the same in reg2 as in reg1
OtherViewersSame(reg1, reg2, u) ==
  \A v \in Viewers \ {u} :
    /\ v \in DOMAIN reg2 <=> v \in DOMAIN reg1
    /\ v \in DOMAIN reg1 => reg2[v] = reg1[v]

\* C17 - Disconnect: disconnect(handle, viewerId) removes that handle from
\* viewerId's set and leaves every other handle and every other viewer
\* unchanged; when the handle was the viewer's last one the viewerId key is
\* removed. Stated of the two callers of disconnect: the endpoint (one handle)
\* and the cleanup of send_personal_message (the handles whose send failed).
C17_Disconnect ==
  [][/\ \A h \in Handles :
          (conn[h] = "open" /\ conn'[h] = "closed") =>
            /\ OtherViewersSame(active_connections, active_connections', ViewerOf(h))
            /\ Registered(active_connections') = Registered(active_connections) \ {h}
            /\ ViewerOf(h) \in DOMAIN active_connections' <=>
                 (ViewerOf(h) \in DOMAIN active_connections
                    /\ active_connections[ViewerOf(h)] \ {h} # {})
            /\ ViewerOf(h) \in DOMAIN active_connections' =>
                 active_connections'[ViewerOf(h)] = active_connections[ViewerOf(h)] \ {h}
     /\ (bpc = "iter" /\ bpc' = "next_user") =>
          /\ OtherViewersSame(active_connections, active_connections', it_user)
          /\ Registered(active_connections') =
               Registered(active_connections) \ disconnected_sockets
          /\ it_user \in DOMAIN active_connections' <=>
               (it_user \in DOMAIN active_connections
                  /\ active_connections[it_user] \ disconnected_sockets # {})]_vars

\* C17 witness: handle 1 of viewer A was registered at the last broadcast and
\* its send did not fail; its endpoint has disconnected it since, and handle 3
\* of the same viewer and handle 2 of viewer B are registered as before.
C17_Witness ==
  /\ conn[1] = "closed"
  /\ 1 \in bc_start
  /\ 1 \notin bc_failed
  /\ DOMAIN active_connections = {"A", "B"}
  /\ active_connections["A"] = {3}
  /\ active_connections["B"] = {2}

\* C18 - Connect is idempotent per handle: after connect(handle, viewerId) the
\* handle is registered under viewerId; calling connect again with the same
\* handle and viewerId leaves the registry unchanged; and a broadcast sends
\* to a handle connected twice exactly once.
C18_ConnectIdempotent ==
  /\ [][\A h \in Handles :
          /\ (conn[h] = "new" /\ conn'[h] = "open") =>
               /\ ViewerOf(h) \in DOMAIN active_connections'
               /\ h \in active_connections'[ViewerOf(h)]
          /\ (h \notin connected_twice /\ h \in connected_twice') =>
               /\ h \in active_connections[ViewerOf(h)]
               /\ active_connections' = active_connections]_vars
  /\ [](\A h \in connected_twice :
          /\ bc_sends[h] <= 1
          /\ (bc_status = "done" /\ h \in bc_start) => bc_sends[h] = 1)

\* C18 witness: connect was called twice on handle 1 while viewer A also had
\* handle 3; the broadcast has ended with one send to each.
C18_Witness ==
  /\ 1 \in connected_twice
  /\ bc_status = "done"
  /\ ~bc_changed
  /\ bc_start = {1, 3}
  /\ bc_sends[1] = 1
  /\ bc_sends[3] = 1

\* ------------------------------------------------------------------------
\* Properties of the relay
\* ------------------------------------------------------------------------
\* C27 - Relay: a message the subscriber loop received is sent to every handle
\* that was registered when it was received, is still registered and whose
\* send did not fail. The loop holds one message at a time and drops it when
\* its broadcast ends, so the message has reached such a handle by then or
\* never does.
C27_Relay ==
  BroadcastEnded =>
    \A h \in (bc_start \cap Registered(active_connections)) \ bc_failed : bc_sends[h] >= 1

\* the relay of C27 in the broadcasts that return
RelayWhenBroadcastReturns ==
  bc_status = "done" =>
    \A h \in (bc_start \cap Registered(active_connections)) \ bc_failed : bc_sends[h] >= 1

\* C26 - FIFO per connection: the messages sent to one handle are sent in the
\* order in which the subscriber loop received them; every send to a handle
\* carries a message received later than the message of every earlier send
\* to it.
C26_FifoPerConnection ==
  [][\A h \in Handles :
       bc_sends'[h] = bc_sends[h] + 1 => last_sent'[h] > last_sent[h]]_vars

\* C26 witness: handle 2 was sent the first message; the broadcast of the
\* second message has sent it to handle 1 and is about to send it to handle 2.
C26_Witness ==
  /\ data = 2
  /\ last_sent[1] = 2
  /\ bc_sends[1] = 1
  /\ last_sent[2] = 1
  /\ bpc = "iter"
  /\ it_user = "B"
  /\ 2 \in IterSet \ it_visited

\* C28 - Malformed payloads are skipped: when the subscriber loop receives a
\* payload that cannot be decoded, nothing is broadcast for it, the registry
\* is unchanged, and the loop neither terminates nor backs off: it is back at
\* get_message, where the next well-formed message is received and broadcast.
C28_MalformedSkipped ==
  [][undecoded' # undecoded =>
       /\ bpc' = "recv"
       /\ UNCHANGED <<active_connections, data, bc_status, bc_sends, last_sent>>]_vars

\* what the code keeps of C28 for every payload json.loads rejects: nothing
\* is broadcast for it and the registry is unchanged
UndecodedNeverBroadcast ==
  [][undecoded' # undecoded =>
       /\ bpc' \in {"recv", "backoff"}
       /\ UNCHANGED <<active_connections, data, bc_status, bc_sends, last_sent>>]_vars

\* ------------------------------------------------------------------------
\* Properties of the endpoint
\* ------------------------------------------------------------------------
\* C30 - Inbound viewer messages have no effect: a text message received from
\* a viewer changes neither the connection registry nor the snapshot cache,
\* and causes no send to any handle and no publish on the bus.
C30_InboundNoEffect ==
  [][inbound' # inbound =>
       UNCHANGED <<active_connections, job_cache, bc_sends, last_sent, published>>]_vars

\* C30 witness: a text message was received from a viewer while two handles
\* are registered and the send of a broadcast to handle 1 is awaited.
C30_Witness ==
  /\ inbound = 1
  /\ Registered(active_connections) = {1, 2}
  /\ bpc = "send"
  /\ it_cur = 1
  /\ bc_sends = [h \in Handles |-> IF h = 1 THEN 1 ELSE 0]

\* C31 - Endpoint cleanup: a handle whose receive loop has ended (by client
\* disconnect or by any other error) is no longer registered under its viewer
\* id, and a handle is in the registry only between its connect and the end
\* of its receive loop or its first failed send: a registered handle has an
\* endpoint in its receive loop, and a handle whose send failed is not
\* registered any more once the broadcast of that send has ended.
C31_EndpointCleanup ==
  /\ \A h \in Handles : h \in Registered(active_connections) => conn[h] = "open"
  /\ BroadcastEnded => \A h \in bc_failed : h \notin Registered(active_connections)

\* what the code keeps of C31: the end of the receive loop always removes the
\* handle, no handle is registered before its connect or after its
\* disconnect, and a broadcast that returns without an exception has removed
\* every handle whose send failed
EndpointCleanup_WithoutError ==
  /\ \A h \in Handles : h \in Registered(active_connections) => conn[h] = "open"
  /\ bc_status = "done" => \A h \in bc_failed : h \notin Registered(active_connections)
  /\ [][\A h \in Handles :
          (conn[h] = "open" /\ conn'[h] = "closed") =>
            h \notin Registered(active_connections')]_vars

====
